---- MODULE Spec2Model ----
(***************************************************************************)
(* SatelliteTracker: the pass predictor (src/prediction/pass_predictor.py), *)
(* the satellite registry lookups (src/tracking/satellite_tracker.py) and   *)
(* the TLE decoder (src/tracking/tle_parser.py), the orbit analyzer          *)
(* (src/utils/orbital.py), the comparator (src/analysis/comparator.py) and  *)
(* the loading of the satellite list (main.py, dashboard.py) as state       *)
(* machines.                                                                *)
(*                                                                          *)
(* Times are integer seconds.  The propagator is a pure function of the     *)
(* sample instant: the elevation follows a trajectory `orbit` chosen in     *)
(* Init, one value per minute, repeated with the trajectory's length.       *)
(***************************************************************************)
EXTENDS Integers, Sequences, FiniteSets, TLC

VARIABLES
    \* ---- PassPredictor object
    min_elevation,      \* self.min_elevation
    eph,                \* self.eph loaded (TRUE) or None (FALSE)
    satellites,         \* self.satellites: the registered names
    orbit,              \* the trajectory the propagator follows
    \* ---- the call in progress
    pc,                 \* "idle" | "scan" | "build"
    caller,             \* "find_passes" | "get_next_pass"
    sat_name, start_time, end_time, floor_arg,
    \* ---- locals of _find_events
    current, prev_el, in_pass, pass_start, pass_start_az, max_el, max_el_time,
    events,
    \* ---- locals of find_passes
    passes,
    \* ---- what the last call returned, and what it asked of the outside
    result,             \* [op, searched, value]: searched = a scan was made
    samples,            \* instants at which the propagator was sampled in this call
    lookups,            \* sunlit lookups of this call: [pass, t, outcome]
    \* ---- SatelliteTracker object
    tracker_satellites, tracker_result,
    \* ---- TLEParser: the call in progress or last made
    p_pc,               \* "idle" | "parse_lines" | "parse_string" (called) | "loop"
    p_args,             \* [name, line1, line2] of parse_lines
    p_text, p_blocks,   \* the text given to parse_string, and how it was composed
    ps_lines, ps_i, ps_satellites,   \* locals lines, i, satellites of parse_string
    ps_failed,          \* line indices of the groups whose decoding raised
    ps_taken,           \* line indices of the groups appended to satellites
    p_result,           \* [op, kind, stage, value]
    p_calls,            \* calls made on the parser object so far
    \* ---- orbital.py and comparator.py: the call in progress or last made
    a_pc,               \* "idle" | "compare" (inside compare_satellites' for)
    a_args,             \* the arguments of the last call
    a_result,           \* [op, kind, stage, value]
    a_calls,            \* calls of the analyzer functions made so far
    a_log,              \* [op, args, out, again] of the calls whose results are compared
    c_satellites, c_k, c_results,    \* satellites, loop position and results of compare_satellites
    \* ---- the loading of the satellite list in main() and load_satellites()
    cli_pc,             \* "idle" | "load" | "fetch" | "fetched" | "fallback" | "loaded"
    cli_caller,         \* "main" | "load_satellites"
    cli_offline,        \* args.offline / use_offline
    cli_response,       \* what requests.get does: [kind, blocks, text]
    cli_fetched,        \* what fetch_from_celestrak returned, None before
    cli_satellites,     \* the local `satellites`
    cli_warned          \* the warning of main was printed

predVars == <<min_elevation, eph, satellites, orbit, pc, caller, sat_name,
              start_time, end_time, floor_arg, current, prev_el, in_pass,
              pass_start, pass_start_az, max_el, max_el_time, events, passes,
              result, samples, lookups>>
trackVars == <<tracker_satellites, tracker_result>>
parseVars == <<p_pc, p_args, p_text, p_blocks, ps_lines, ps_i, ps_satellites,
               ps_failed, ps_taken, p_result, p_calls>>
anaVars == <<a_pc, a_args, a_result, a_calls, a_log, c_satellites, c_k, c_results>>
cliVars == <<cli_pc, cli_caller, cli_offline, cli_response, cli_fetched,
             cli_satellites, cli_warned>>
vars == <<predVars, trackVars, parseVars, anaVars, cliVars>>

\* ------------------------------------------------------------------ bounds
OrbitPeriod == 4        \* length of the trajectories of Init, in samples
MinutesPerDay == 2      \* one-minute samples the model gives a day (time scale)
MaxDays == 3            \* largest `days` argument of find_passes

\* ------------------------------------------------------- program constants
step_minutes == 1       \* pass_predictor.py:116
NEXT_PASS_DAYS == 7     \* pass_predictor.py:243
INITIAL_MAX_EL == -90   \* pass_predictor.py:120

None == <<>>
Some(v) == <<v>>

Names == {"ISS", "UNKNOWN_SAT"}
Elevations == {5, 10, 45}
MinElevations == {10, 45}
StartTimes == {0, 30}
Floors == {10, 45, 50}

\* timedelta(minutes=m), timedelta(days=d) in seconds
Minutes(m) == m * 60
Days(d) == d * MinutesPerDay * 60

\* ------------------------------------------------------------ propagator
\* difference.at(t).altaz(): elevation and azimuth at the instant t
ElevationAt(t) == orbit[((t \div 60) % Len(orbit)) + 1]
AzimuthAt(t) == ((t \div 60) * 37) % 360
\* sat.at(t).is_sunlit(eph): True, False, or an exception of the ephemeris
SunlitOutcomeAt(t) ==
    CASE (t \div 60) % 3 = 0 -> "sunlit"
      [] (t \div 60) % 3 = 1 -> "shadow"
      [] OTHER -> "raise"

\* ------------------------------------------------------------ _find_events
IsRise_strict(prev, el) == prev < min_elevation /\ el > min_elevation
IsRise(prev, el) == prev < min_elevation /\ el >= min_elevation
IsSet_strict(prev, el) == prev > min_elevation /\ el < min_elevation
IsSet(prev, el) == prev >= min_elevation /\ el < min_elevation

\* `if in_pass and el > max_el`
Tracks_orEqual(inp, el, m) == inp /\ el >= m
Tracks(inp, el, m) == inp /\ el > m

Event(aos, los, mt, m, aaz, laz) ==
    [aos_time |-> aos, los_time |-> los, max_el_time |-> mt, max_el |-> m,
     aos_az |-> aaz, los_az |-> laz]

\* the scan entered as if a pass had begun at the first sample
ScanInit_inPass ==
    /\ prev_el' = None
    /\ max_el' = INITIAL_MAX_EL
    /\ max_el_time' = Some(start_time')
    /\ in_pass' = TRUE
    /\ pass_start' = Some(start_time')
    /\ pass_start_az' = Some(AzimuthAt(start_time'))
    /\ events' = <<>>

\* the locals at the top of _find_events
ScanInit ==
    /\ prev_el' = None
    /\ max_el' = INITIAL_MAX_EL
    /\ max_el_time' = None
    /\ in_pass' = FALSE
    /\ pass_start' = None
    /\ pass_start_az' = None
    /\ events' = <<>>

\* `while current < end_time`
LoopGuard_closed(t, en) == t <= en
LoopGuard(t, en) == t < en

\* one iteration of `while current < end_time`
ScanStep ==
    /\ pc = "scan"
    /\ LoopGuard(current, end_time)
    /\ LET el == ElevationAt(current)
           az == AzimuthAt(current)
           rise == prev_el # None /\ IsRise(prev_el[1], el)
           set == prev_el # None /\ IsSet(prev_el[1], el)
           \* after the rise block
           in1 == IF rise THEN TRUE ELSE in_pass
           ps1 == IF rise THEN Some(current) ELSE pass_start
           pa1 == IF rise THEN Some(az) ELSE pass_start_az
           me1 == IF rise THEN el ELSE max_el
           mt1 == IF rise THEN Some(current) ELSE max_el_time
           \* after the set block
           emit == set /\ in1 /\ ps1 # None
           in2 == IF set THEN FALSE ELSE in1
           ps2 == IF set THEN None ELSE ps1
           me2 == IF set THEN INITIAL_MAX_EL ELSE me1
           \* track maximum
           track == Tracks(in2, el, me2)
       IN /\ events' = IF emit
                       THEN Append(events, Event(ps1[1], current, mt1[1], me1, pa1[1], az))
                       ELSE events
          /\ in_pass' = in2
          /\ pass_start' = ps2
          /\ pass_start_az' = pa1
          /\ max_el' = IF track THEN el ELSE me2
          /\ max_el_time' = IF track THEN Some(current) ELSE mt1
          /\ prev_el' = Some(el)
          /\ samples' = Append(samples, current)
          /\ current' = current + Minutes(step_minutes)
    /\ UNCHANGED <<min_elevation, eph, satellites, orbit, pc, caller, sat_name,
                   start_time, end_time, floor_arg, passes, result, lookups>>
    /\ UNCHANGED <<trackVars, parseVars, anaVars, cliVars>>

\* `return events` once the loop condition fails
ScanDone ==
    /\ pc = "scan"
    /\ ~LoopGuard(current, end_time)
    /\ pc' = "build"
    \* the locals of _find_events go out of scope; `events` is what it returns
    /\ current' = 0
    /\ prev_el' = None
    /\ in_pass' = FALSE
    /\ pass_start' = None
    /\ pass_start_az' = None
    /\ max_el' = INITIAL_MAX_EL
    /\ max_el_time' = None
    /\ UNCHANGED <<min_elevation, eph, satellites, orbit, caller, sat_name,
                   start_time, end_time, floor_arg, events,
                   passes, result, samples, lookups>>
    /\ UNCHANGED <<trackVars, parseVars, anaVars, cliVars>>

\* ------------------------------------------------------------ find_passes
Registered_always(n) == TRUE
Registered(n) == n \in satellites

\* self.ts.utc(year, month, day, hour, minute): the seconds are not passed
SunlitLookupTime(t) == t - (t % 60)

Duration_fromPeak(ev) == ev.los_time - ev.max_el_time
Duration(ev) == ev.los_time - ev.aos_time

\* aos and los exchanged
SatellitePass_swapped(n, ev, sunlit) ==
    [satellite_name |-> n,
     aos_time |-> ev.los_time,
     los_time |-> ev.aos_time,
     max_elevation_time |-> ev.max_el_time,
     max_elevation_deg |-> ev.max_el,
     aos_azimuth |-> ev.los_az,
     los_azimuth |-> ev.aos_az,
     duration_seconds |-> Duration(ev),
     is_sunlit |-> sunlit]

SatellitePass(n, ev, sunlit) ==
    [satellite_name |-> n,
     aos_time |-> ev.aos_time,
     los_time |-> ev.los_time,
     max_elevation_time |-> ev.max_el_time,
     max_elevation_deg |-> ev.max_el,
     aos_azimuth |-> ev.aos_az,
     los_azimuth |-> ev.los_az,
     duration_seconds |-> Duration(ev),
     is_sunlit |-> sunlit]

\* is_sunlit after the try block, for the outcome of sat.at(t).is_sunlit(eph)
SunlitFlag_unlessShadow(outcome) == outcome # "shadow"
SunlitFlag(outcome) == outcome = "sunlit"

NoResult == [op |-> "none", searched |-> FALSE, value |-> None]

\* the entry of a search: locals of find_passes and of _find_events
StartSearch(who, n, st, en, fl) ==
    /\ caller' = who
    /\ sat_name' = n
    /\ start_time' = st
    /\ end_time' = en
    /\ floor_arg' = fl
    /\ current' = st
    /\ ScanInit
    /\ passes' = <<>>
    /\ samples' = <<>>
    /\ lookups' = <<>>
    /\ result' = NoResult
    /\ pc' = "scan"
    /\ UNCHANGED <<min_elevation, eph, satellites, orbit>>
    /\ UNCHANGED <<trackVars, parseVars, anaVars, cliVars>>

\* the early return of a search for a name that is not registered
UnknownReturn(who, n, fl, value) ==
    /\ caller' = who
    /\ sat_name' = n
    /\ floor_arg' = fl
    /\ result' = [op |-> who, searched |-> FALSE, value |-> value]
    /\ samples' = <<>>
    /\ lookups' = <<>>
    /\ events' = <<>>
    /\ passes' = <<>>
    /\ UNCHANGED <<min_elevation, eph, satellites, orbit, pc, start_time,
                   end_time, current, prev_el, in_pass, pass_start,
                   pass_start_az, max_el, max_el_time>>
    /\ UNCHANGED <<trackVars, parseVars, anaVars, cliVars>>

add_satellite(n) ==
    /\ pc = "idle"
    /\ satellites' = satellites \cup {n}
    /\ UNCHANGED <<min_elevation, eph, orbit, pc, caller, sat_name, start_time,
                   end_time, floor_arg, current, prev_el, in_pass, pass_start,
                   pass_start_az, max_el, max_el_time, events, passes, result,
                   samples, lookups>>
    /\ UNCHANGED <<trackVars, parseVars, anaVars, cliVars>>

find_passes(n, days, st) ==
    /\ pc = "idle"
    /\ Registered(n)
    /\ StartSearch("find_passes", n, st, st + Days(days), 0)

find_passes_unknown(n) ==
    /\ pc = "idle"
    /\ ~Registered(n)
    /\ UnknownReturn("find_passes", n, floor_arg, <<>>)

\* one iteration of `for event in events`, self.eph is None
BuildPassNoEph ==
    /\ pc = "build"
    /\ Len(passes) < Len(events)
    /\ ~eph
    /\ passes' = Append(passes, SatellitePass(sat_name, events[Len(passes) + 1], FALSE))
    /\ UNCHANGED <<min_elevation, eph, satellites, orbit, pc, caller, sat_name,
                   start_time, end_time, floor_arg, current, prev_el, in_pass,
                   pass_start, pass_start_az, max_el, max_el_time, events,
                   result, samples, lookups>>
    /\ UNCHANGED <<trackVars, parseVars, anaVars, cliVars>>

\* one iteration of `for event in events`, with the sunlit lookup made
BuildPassLookup ==
    /\ pc = "build"
    /\ Len(passes) < Len(events)
    /\ eph
    /\ LET ev == events[Len(passes) + 1]
           outcome == SunlitOutcomeAt(SunlitLookupTime(ev.max_el_time))
       IN /\ lookups' = Append(lookups, [pass |-> Len(passes) + 1,
                                         t |-> SunlitLookupTime(ev.max_el_time),
                                         outcome |-> outcome])
          /\ passes' = Append(passes, SatellitePass(sat_name, ev, SunlitFlag(outcome)))
    /\ UNCHANGED <<min_elevation, eph, satellites, orbit, pc, caller, sat_name,
                   start_time, end_time, floor_arg, current, prev_el, in_pass,
                   pass_start, pass_start_az, max_el, max_el_time, events,
                   result, samples>>
    /\ UNCHANGED <<trackVars, parseVars, anaVars, cliVars>>

find_passes_return ==
    /\ pc = "build"
    /\ Len(passes) = Len(events)
    /\ caller = "find_passes"
    /\ result' = [op |-> "find_passes", searched |-> TRUE, value |-> passes]
    /\ pc' = "idle"
    /\ UNCHANGED <<min_elevation, eph, satellites, orbit, caller, sat_name,
                   start_time, end_time, floor_arg, current, prev_el, in_pass,
                   pass_start, pass_start_az, max_el, max_el_time, events,
                   passes, samples, lookups>>
    /\ UNCHANGED <<trackVars, parseVars, anaVars, cliVars>>

\* ---------------------------------------------------------- get_next_pass
MeetsFloor_strict(p, fl) == p.max_elevation_deg > fl
MeetsFloor(p, fl) == p.max_elevation_deg >= fl

\* `for p in passes: if ...: return p` and the final `return None`
FirstGoodPass(ps, fl) ==
    LET good == {i \in 1..Len(ps) : MeetsFloor(ps[i], fl)}
    IN IF good = {} THEN None
       ELSE Some(ps[CHOOSE i \in good : \A j \in good : i <= j])

get_next_pass(n, fl, st) ==
    /\ pc = "idle"
    /\ Registered(n)
    /\ StartSearch("get_next_pass", n, st, st + Days(NEXT_PASS_DAYS), fl)

get_next_pass_unknown(n, fl) ==
    /\ pc = "idle"
    /\ ~Registered(n)
    /\ UnknownReturn("get_next_pass", n, fl, FirstGoodPass(<<>>, fl))

get_next_pass_return ==
    /\ pc = "build"
    /\ Len(passes) = Len(events)
    /\ caller = "get_next_pass"
    /\ result' = [op |-> "get_next_pass", searched |-> TRUE,
                   value |-> FirstGoodPass(passes, floor_arg)]
    /\ pc' = "idle"
    /\ UNCHANGED <<min_elevation, eph, satellites, orbit, caller, sat_name,
                   start_time, end_time, floor_arg, current, prev_el, in_pass,
                   pass_start, pass_start_az, max_el, max_el_time, events,
                   passes, samples, lookups>>
    /\ UNCHANGED <<trackVars, parseVars, anaVars, cliVars>>

\* -------------------------------------------------------- SatelliteTracker
SatellitePosition(n, t) == [name |-> n, timestamp |-> t]

tracker_add_satellite(n) ==
    /\ tracker_satellites' = tracker_satellites \cup {n}
    /\ UNCHANGED tracker_result
    /\ UNCHANGED <<predVars, parseVars, anaVars, cliVars>>

get_position(n, t) ==
    /\ tracker_result' =
          [op |-> "get_position", name |-> n,
           value |-> IF n \notin tracker_satellites THEN None
                     ELSE Some(SatellitePosition(n, t))]
    /\ UNCHANGED tracker_satellites
    /\ UNCHANGED <<predVars, parseVars, anaVars, cliVars>>

\* (azimuth_deg, elevation_deg, range_km); the range is not modelled
UNKNOWN_LOOK_ANGLE == <<0, 0, 0>>
LookAngle(n, t) ==
    IF n \notin tracker_satellites THEN UNKNOWN_LOOK_ANGLE
    ELSE <<AzimuthAt(t), ElevationAt(t), 0>>

get_look_angle(n, t) ==
    /\ tracker_result' = [op |-> "get_look_angle", name |-> n, value |-> LookAngle(n, t)]
    /\ UNCHANGED tracker_satellites
    /\ UNCHANGED <<predVars, parseVars, anaVars, cliVars>>

\* el >= min_elevation on the elevation get_look_angle returned
is_visible(n, min_el, t) ==
    /\ tracker_result' =
          [op |-> "is_visible", name |-> n, value |-> LookAngle(n, t)[2] >= min_el]
    /\ UNCHANGED tracker_satellites
    /\ UNCHANGED <<predVars, parseVars, anaVars, cliVars>>

\* ======================================================================
\* TLEParser (src/tracking/tle_parser.py)
\* Strings are sequences of one-character strings.
\* ======================================================================
\* ------------------------------------------------------ str and number
Whitespace == {" ", "\n"}
DigitChars == <<"0", "1", "2", "3", "4", "5", "6", "7", "8", "9">>
IsDigit(c) == \E d \in 1..10 : DigitChars[d] = c
DigitVal(c) == (CHOOSE d \in 1..10 : DigitChars[d] = c) - 1

Min(a, b) == IF a < b THEN a ELSE b
Max(a, b) == IF a > b THEN a ELSE b

\* s[a:b], a and b not negative
Slice(s, a, b) == SubSeq(s, a + 1, Min(b, Len(s)))
\* s[:-k] and s[-k:]
DropLast(s, k) == SubSeq(s, 1, Len(s) - k)
TakeLast(s, k) == SubSeq(s, Max(1, Len(s) - k + 1), Len(s))

RECURSIVE LStrip(_)
LStrip(s) == IF s # <<>> /\ Head(s) \in Whitespace THEN LStrip(Tail(s)) ELSE s
RECURSIVE RStrip(_)
RStrip(s) ==
    IF s # <<>> /\ s[Len(s)] \in Whitespace THEN RStrip(DropLast(s, 1)) ELSE s
\* str.strip()
Strip(s) == RStrip(LStrip(s))

\* str.startswith(c) for a one-character c
StartsWith(s, c) == Len(s) >= 1 /\ s[1] = c

\* str.replace(c, "") for every c of cs
RECURSIVE Remove(_, _)
Remove(s, cs) ==
    IF s = <<>> THEN <<>>
    ELSE IF Head(s) \in cs THEN Remove(Tail(s), cs)
    ELSE <<Head(s)>> \o Remove(Tail(s), cs)

\* str.split(sep) for a one-character sep
RECURSIVE Split(_, _)
Split(s, sep) ==
    IF \A k \in 1..Len(s) : s[k] # sep THEN <<s>>
    ELSE LET k == CHOOSE j \in 1..Len(s) :
                     s[j] = sep /\ \A h \in 1..(j - 1) : s[h] # sep
         IN <<SubSeq(s, 1, k - 1)>> \o Split(SubSeq(s, k + 1, Len(s)), sep)

RECURSIVE DigitsValue(_)
DigitsValue(ds) ==
    IF ds = <<>> THEN 0 ELSE DigitsValue(DropLast(ds, 1)) * 10 + DigitVal(ds[Len(ds)])

\* the sign and the rest of a stripped numeric text
IsNegative(s) == s # <<>> /\ s[1] = "-"
Unsigned(s) == IF s # <<>> /\ s[1] \in {"+", "-"} THEN Tail(s) ELSE s
AllDigits(body) == body # <<>> /\ \A k \in 1..Len(body) : IsDigit(body[k])

Converted(ok, val, default) == [ok |-> ok, val |-> IF ok THEN val ELSE default]

\* int(s): surrounding whitespace, one optional sign, then digits only
IntOf(neg, body) ==
    Converted(AllDigits(body),
              IF neg THEN 0 - DigitsValue(body) ELSE DigitsValue(body), 0)
ParseInt(s0) == IntOf(IsNegative(Strip(s0)), Unsigned(Strip(s0)))

\* A decimal value: digs * 10^(-scale), negated when neg.  digs has neither a
\* leading nor a trailing zero, so equal values have equal representations.
RECURSIVE DropLeadingZeros(_)
DropLeadingZeros(ds) ==
    IF ds # <<>> /\ Head(ds) = "0" THEN DropLeadingZeros(Tail(ds)) ELSE ds
RECURSIVE TrailingZeros(_)
TrailingZeros(ds) ==
    IF ds # <<>> /\ ds[Len(ds)] = "0" THEN 1 + TrailingZeros(DropLast(ds, 1)) ELSE 0

Canonical(neg, core, scale) ==
    IF core = <<>> THEN [neg |-> FALSE, digs |-> <<>>, scale |-> 0]
    ELSE [neg |-> neg, digs |-> core, scale |-> scale]
Trimmed(neg, ds, scale, z) ==
    Canonical(neg, DropLeadingZeros(DropLast(ds, z)), scale - z)
Decimal(neg, ds, scale) == Trimmed(neg, ds, scale, TrailingZeros(ds))

Zero == [neg |-> FALSE, digs |-> <<>>, scale |-> 0]
Negate(v) == IF v.digs = <<>> THEN v ELSE [v EXCEPT !.neg = ~v.neg]
\* v * (10 ** e)
TimesPowerOfTen(v, e) == IF v.digs = <<>> THEN v ELSE [v EXCEPT !.scale = v.scale - e]

\* float(s) for decimal text: surrounding whitespace, one optional sign, digits
\* with at most one point and at least one digit
Points(body) == {k \in 1..Len(body) : body[k] = "."}
FloatText(body, points) ==
    /\ Cardinality(points) <= 1
    /\ \A k \in 1..Len(body) : body[k] = "." \/ IsDigit(body[k])
    /\ \E k \in 1..Len(body) : IsDigit(body[k])
FloatAt(neg, body, pt) ==
    Decimal(neg, SubSeq(body, 1, pt - 1) \o SubSeq(body, pt + 1, Len(body)),
            IF pt > Len(body) THEN 0 ELSE Len(body) - pt)
FloatWith(neg, body, points) ==
    Converted(FloatText(body, points),
              FloatAt(neg, body, IF points = {} THEN Len(body) + 1
                                 ELSE CHOOSE k \in points : TRUE),
              Zero)
FloatOf(neg, body) == FloatWith(neg, body, Points(body))
ParseFloat(s0) == FloatOf(IsNegative(Strip(s0)), Unsigned(Strip(s0)))

\* the packed fields of line 1 (mean_motion_ddot, bstar)
PackedValue(neg, mantissa, exp) ==
    Converted(mantissa.ok /\ exp.ok,
              IF neg THEN Negate(TimesPowerOfTen(mantissa.val, exp.val))
              ELSE TimesPowerOfTen(mantissa.val, exp.val),
              Zero)
\* the sign taken from a "-" anywhere in the field
PackedOf_anyMinus(str) ==
    IF str = <<>> THEN [ok |-> TRUE, val |-> Zero]
    ELSE PackedValue(\E k \in 1..Len(str) : str[k] = "-",
                     ParseFloat(<<"0", ".">> \o Remove(DropLast(str, 2), {" ", "+", "-"})),
                     ParseInt(TakeLast(str, 2)))
PackedOf(str) ==
    IF str = <<>> THEN [ok |-> TRUE, val |-> Zero]
    ELSE PackedValue(StartsWith(str, "-"),
                     ParseFloat(<<"0", ".">> \o Remove(DropLast(str, 2), {" ", "+", "-"})),
                     ParseInt(TakeLast(str, 2)))
ParsePacked(field) == PackedOf(Strip(field))

\* ----------------------------------------------------------- DEFAULT_TLES
ISS_NAME ==
    <<
       "I", "S", "S", " ", "(", "Z", "A", "R", "Y", "A", ")" >>
ISS_LINE1 ==
    <<
       "1", " ", "2", "5", "5", "4", "4", "U", " ", "9", "8", "0",
       "6", "7", "A", " ", " ", " ", "2", "4", "0", "0", "1", ".",
       "5", "0", "0", "0", "0", "0", "0", "0", " ", " ", ".", "0",
       "0", "0", "1", "6", "7", "1", "7", " ", " ", "0", "0", "0",
       "0", "0", "-", "0", " ", " ", "3", "0", "0", "0", "0", "-",
       "3", " ", "0", " ", " ", "9", "9", "9", "9" >>
ISS_LINE2 ==
    <<
       "2", " ", "2", "5", "5", "4", "4", " ", " ", "5", "1", ".",
       "6", "4", "0", "0", " ", "2", "4", "7", ".", "4", "6", "2",
       "7", " ", "0", "0", "0", "6", "7", "0", "3", " ", "1", "7",
       "0", ".", "5", "5", "1", "0", " ", "1", "8", "9", ".", "5",
       "6", "4", "0", " ", "1", "5", ".", "4", "9", "5", "4", "1",
       "0", "0", "0", " ", " ", "1", "0", "0", "0" >>
STARLINK_NAME ==
    <<
       "S", "T", "A", "R", "L", "I", "N", "K", "-", "1", "0", "0",
       "7" >>
STARLINK_LINE1 ==
    <<
       "1", " ", "4", "4", "7", "1", "3", "U", " ", "1", "9", "0",
       "7", "4", "A", " ", " ", " ", "2", "4", "0", "0", "1", ".",
       "5", "0", "0", "0", "0", "0", "0", "0", " ", " ", ".", "0",
       "0", "0", "0", "1", "0", "0", "0", " ", " ", "0", "0", "0",
       "0", "0", "-", "0", " ", " ", "1", "0", "0", "0", "0", "-",
       "3", " ", "0", " ", " ", "9", "9", "9", "9" >>
STARLINK_LINE2 ==
    <<
       "2", " ", "4", "4", "7", "1", "3", " ", " ", "5", "3", ".",
       "0", "0", "0", "0", " ", "2", "0", "0", ".", "0", "0", "0",
       "0", " ", "0", "0", "0", "1", "5", "0", "0", " ", " ", "9",
       "0", ".", "0", "0", "0", "0", " ", "2", "7", "0", ".", "0",
       "0", "0", "0", " ", "1", "5", ".", "0", "5", "0", "0", "0",
       "0", "0", "0", " ", " ", "1", "0", "0", "0" >>
GPS_NAME ==
    <<
       "G", "P", "S", " ", "B", "I", "I", "R", "-", "2" >>
GPS_LINE1 ==
    <<
       "1", " ", "2", "4", "8", "7", "6", "U", " ", "9", "7", "0",
       "3", "5", "A", " ", " ", " ", "2", "4", "0", "0", "1", ".",
       "5", "0", "0", "0", "0", "0", "0", "0", " ", " ", ".", "0",
       "0", "0", "0", "0", "0", "1", "0", " ", " ", "0", "0", "0",
       "0", "0", "-", "0", " ", " ", "1", "0", "0", "0", "0", "-",
       "3", " ", "0", " ", " ", "9", "9", "9", "9" >>
GPS_LINE2 ==
    <<
       "2", " ", "2", "4", "8", "7", "6", " ", " ", "5", "5", ".",
       "0", "0", "0", "0", " ", "1", "0", "0", ".", "0", "0", "0",
       "0", " ", "0", "0", "5", "0", "0", "0", "0", " ", "2", "5",
       "0", ".", "0", "0", "0", "0", " ", "1", "0", "0", ".", "0",
       "0", "0", "0", " ", " ", "2", ".", "0", "0", "5", "6", "2",
       "0", "0", "0", " ", " ", "1", "0", "0", "0" >>

\* ------------------------------------------------------------ parse_lines
\* `if not line1.startswith("1") or not line2.startswith("2")`, negated
PrefixOk_either(line1, line2) == StartsWith(line1, "1") \/ StartsWith(line2, "2")
PrefixOk(line1, line2) == StartsWith(line1, "1") /\ StartsWith(line2, "2")

TLEData(name, line1, line2, f) ==
    [name |-> name,
     norad_id |-> f.norad_id,
     classification |-> f.classification,
     launch_year |-> f.launch_year,
     launch_number |-> f.launch_number,
     piece |-> f.piece,
     epoch_year |-> f.epoch_year,
     epoch_day |-> f.epoch_day,
     mean_motion_dot |-> f.mean_motion_dot,
     mean_motion_ddot |-> f.mean_motion_ddot,
     bstar |-> f.bstar,
     inclination |-> f.inclination,
     raan |-> f.raan,
     eccentricity |-> f.eccentricity,
     arg_perigee |-> f.arg_perigee,
     mean_anomaly |-> f.mean_anomaly,
     mean_motion |-> f.mean_motion,
     rev_number |-> f.rev_number,
     line1 |-> line1,
     line2 |-> line2]

Raised(kind, stage) == [kind |-> kind, stage |-> stage, value |-> None]
Returned_(value) == [kind |-> "ok", stage |-> "return", value |-> Some(value)]

\* one statement of parse_lines: the field it computes and the exception it
\* raises ("" for none)
Conversion(field, parsed) ==
    [field |-> field, err |-> IF parsed.ok THEN "" ELSE "ValueError", val |-> parsed.val]
\* s[k] raises IndexError past the end
Indexing(field, s, k) ==
    [field |-> field, err |-> IF k < Len(s) THEN "" ELSE "IndexError",
     val |-> Slice(s, k, k + 1)]
Slicing(field, val) == [field |-> field, err |-> "", val |-> val]

\* the statements of parse_lines after the prefix check, in program order
FieldSteps(line1, line2) ==
    << Conversion("norad_id", ParseInt(Slice(line1, 2, 7))),
       Indexing("classification", line1, 7),
       Conversion("launch_year", ParseInt(Slice(line1, 9, 11))),
       Conversion("launch_number", ParseInt(Slice(line1, 11, 14))),
       Slicing("piece", Strip(Slice(line1, 14, 17))),
       Conversion("epoch_year", ParseInt(Slice(line1, 18, 20))),
       Conversion("epoch_day", ParseFloat(Slice(line1, 20, 32))),
       Conversion("mean_motion_dot", ParseFloat(Slice(line1, 33, 43))),
       Conversion("mean_motion_ddot", ParsePacked(Slice(line1, 44, 52))),
       Conversion("bstar", ParsePacked(Slice(line1, 53, 61))),
       Conversion("inclination", ParseFloat(Slice(line2, 8, 16))),
       Conversion("raan", ParseFloat(Slice(line2, 17, 25))),
       Conversion("eccentricity", ParseFloat(<<"0", ".">> \o Slice(line2, 26, 33))),
       Conversion("arg_perigee", ParseFloat(Slice(line2, 34, 42))),
       Conversion("mean_anomaly", ParseFloat(Slice(line2, 43, 51))),
       Conversion("mean_motion", ParseFloat(Slice(line2, 52, 63))),
       Conversion("rev_number", ParseInt(Slice(line2, 63, 68))) >>

\* the first statement that raises, 0 when none does
FirstFailing(steps) ==
    IF \A k \in 1..Len(steps) : steps[k].err = "" THEN 0
    ELSE CHOOSE k \in 1..Len(steps) :
            steps[k].err # "" /\ \A j \in 1..(k - 1) : steps[j].err = ""

FieldsOf(steps) ==
    [fld \in {steps[k].field : k \in 1..Len(steps)} |->
        steps[CHOOSE k \in 1..Len(steps) : steps[k].field = fld].val]

Outcome(name, line1, line2, steps, first) ==
    IF first # 0 THEN Raised(steps[first].err, steps[first].field)
    ELSE Returned_(TLEData(name, line1, line2, FieldsOf(steps)))

Decode(name, line1, line2, steps) ==
    Outcome(name, line1, line2, steps, FirstFailing(steps))

ParseStripped(name, line1, line2) ==
    IF ~PrefixOk(line1, line2) THEN Raised("ValueError", "prefix")
    ELSE Decode(name, line1, line2, FieldSteps(line1, line2))

\* parse_lines(name, line1, line2): the record, or the first exception raised
ParseLines(name0, l1, l2) == ParseStripped(Strip(name0), Strip(l1), Strip(l2))

\* a call of the parser: p_pc names the function entered, p_args and p_text
\* hold its arguments
NoArgs == [name |-> <<>>, line1 |-> <<>>, line2 |-> <<>>]
NoParseResult == [op |-> "none", kind |-> "ok", stage |-> "none", value |-> None]

CallResult(op, r) == [op |-> op, kind |-> r.kind, stage |-> r.stage, value |-> r.value]

ParserLocalsFresh ==
    /\ ps_lines = <<>>
    /\ ps_i = 0
    /\ ps_satellites = <<>>
    /\ ps_failed = {}
    /\ ps_taken = <<>>
    /\ p_result = NoParseResult
    /\ p_calls = 0

ParserIdle ==
    /\ p_pc = "idle"
    /\ p_args = NoArgs
    /\ p_text = <<>>
    /\ p_blocks = <<>>
    /\ ParserLocalsFresh

parse_lines ==
    /\ p_pc = "parse_lines"
    /\ p_result' = CallResult("parse_lines",
                              ParseLines(p_args.name, p_args.line1, p_args.line2))
    /\ p_pc' = "idle"
    /\ p_calls' = p_calls + 1
    /\ UNCHANGED <<p_args, p_text, p_blocks, ps_lines, ps_i, ps_satellites,
                   ps_failed, ps_taken>>
    /\ UNCHANGED <<predVars, trackVars, anaVars, cliVars>>

\* ----------------------------------------------------------- parse_string
MaxCalls == 2           \* most calls made on one parser object

\* `while i < len(lines) - 2`
LoopContinues_offByOne(i, n) == i < n - 3
LoopContinues(i, n) == i < n - 2

\* `except Exception` around parse_lines
Caught(kind) == kind \in {"ValueError", "IndexError"}

\* an entry that rejects a text without lines
parse_string_rejectsEmpty ==
    /\ p_pc = "parse_string"
    /\ IF Strip(p_text) = <<>>
       THEN /\ p_result' = CallResult("parse_string", Raised("ValueError", "entry"))
            /\ p_pc' = "idle"
            /\ UNCHANGED <<ps_lines, ps_i, ps_satellites>>
       ELSE /\ ps_lines' = Split(Strip(p_text), "\n")
            /\ ps_i' = 0
            /\ ps_satellites' = <<>>
            /\ p_pc' = "loop"
            /\ UNCHANGED p_result
    /\ ps_failed' = {}
    /\ ps_taken' = <<>>
    /\ p_calls' = p_calls + 1
    /\ UNCHANGED <<p_args, p_text, p_blocks>>
    /\ UNCHANGED <<predVars, trackVars, anaVars, cliVars>>

\* the entry of parse_string: lines = tle_string.strip().split("\n")
parse_string ==
    /\ p_pc = "parse_string"
    /\ ps_lines' = Split(Strip(p_text), "\n")
    /\ ps_i' = 0
    /\ ps_satellites' = <<>>
    /\ ps_failed' = {}
    /\ ps_taken' = <<>>
    /\ p_pc' = "loop"
    /\ p_calls' = p_calls + 1
    /\ UNCHANGED <<p_args, p_text, p_blocks, p_result>>
    /\ UNCHANGED <<predVars, trackVars, anaVars, cliVars>>

\* the try block of an iteration: r is what parse_lines did
Attempt(r) ==
    IF r.kind = "ok"
    THEN /\ ps_satellites' = Append(ps_satellites, r.value[1])
         /\ ps_taken' = Append(ps_taken, ps_i)
         /\ ps_i' = ps_i + 3
         /\ UNCHANGED <<ps_failed, p_pc, p_result>>
    ELSE IF Caught(r.kind)
    THEN /\ ps_failed' = ps_failed \cup {ps_i}
         /\ ps_i' = ps_i + 3
         /\ UNCHANGED <<ps_satellites, ps_taken, p_pc, p_result>>
    ELSE /\ p_result' = CallResult("parse_string", r)
         /\ p_pc' = "idle"
         /\ UNCHANGED <<ps_satellites, ps_taken, ps_failed, ps_i>>

Iteration(name, line1, line2) ==
    IF PrefixOk(line1, line2)
    THEN Attempt(ParseLines(name, line1, line2))
    ELSE /\ ps_i' = ps_i + 1
         /\ UNCHANGED <<ps_satellites, ps_taken, ps_failed, p_pc, p_result>>

\* one iteration of the while loop (ps_lines[k + 1] is lines[k])
parse_string_step ==
    /\ p_pc = "loop"
    /\ LoopContinues(ps_i, Len(ps_lines))
    /\ Iteration(Strip(ps_lines[ps_i + 1]), Strip(ps_lines[ps_i + 2]),
                 Strip(ps_lines[ps_i + 3]))
    /\ UNCHANGED <<p_args, p_text, p_blocks, ps_lines, p_calls>>
    /\ UNCHANGED <<predVars, trackVars, anaVars, cliVars>>

\* `return satellites`
parse_string_return ==
    /\ p_pc = "loop"
    /\ ~LoopContinues(ps_i, Len(ps_lines))
    /\ p_result' = [op |-> "parse_string", kind |-> "ok", stage |-> "return",
                    value |-> ps_satellites]
    /\ p_pc' = "idle"
    /\ UNCHANGED <<p_args, p_text, p_blocks, ps_lines, ps_i, ps_satellites,
                   ps_failed, ps_taken, p_calls>>
    /\ UNCHANGED <<predVars, trackVars, anaVars, cliVars>>

\* the same parser object is called once more, with the same arguments
call_again ==
    /\ p_pc = "idle"
    /\ p_calls \in 1..(MaxCalls - 1)
    /\ p_pc' = p_result.op
    /\ UNCHANGED <<p_args, p_text, p_blocks, ps_lines, ps_i, ps_satellites,
                   ps_failed, ps_taken, p_result, p_calls>>
    /\ UNCHANGED <<predVars, trackVars, anaVars, cliVars>>

\* ------------------------------------------------------ inputs of the parser
MaxBlocks == 3          \* most blocks of lines a text is composed of

Truncate(s, n) == SubSeq(s, 1, n)
Substitute(s, k, c) == [s EXCEPT ![k] = c]
Pad(s) == <<" ">> \o s \o <<" ", " ">>

MutationChars == {"X", " ", "-", "."}
BAD_NAME == <<"B", "A", "D", " ", "S", "A", "T">>
BAD_LINE1 == <<"X", " ", "i", "n", "v", "a", "l", "i", "d", " ", "l", "i", "n", "e">>
BAD_LINE2 == <<"Y", " ", "a", "l", "s", "o", " ", "i", "n", "v", "a", "l", "i", "d">>
DESIGNATOR_NAME == <<"2", "0", "2", "0", "-", "0", "0", "1", "A">>
STRAY_LINE == <<"#", " ", "s", "t", "a", "t", "i", "o", "n", "s">>

Variants(line) ==
    {Truncate(line, n) : n \in 0..Len(line)}
      \cup {Substitute(line, k, c) : k \in 1..Len(line), c \in MutationChars}
      \cup {Pad(line)}

Line1Inputs == Variants(ISS_LINE1) \cup {BAD_LINE1, ISS_LINE2}
Line2Inputs == Variants(ISS_LINE2) \cup {BAD_LINE2, ISS_LINE1}
Line1Few == {ISS_LINE1, Truncate(ISS_LINE1, 7), BAD_LINE1}
Line2Few == {ISS_LINE2, Pad(ISS_LINE2), BAD_LINE2}
NameInputs == {ISS_NAME, Pad(ISS_NAME), BAD_NAME}

\* line 2 with other characters in the mean-motion columns, line2[52:63]
WithMeanMotion(line2, column) == SubSeq(line2, 1, 52) \o column \o SubSeq(line2, 64, Len(line2))
NEGATIVE_MOTION == <<"-", "5", ".", "4", "9", "5", "4", "1", "0", "0", "0">>
ZERO_MOTION == <<" ", "0", ".", "0", "0", "0", "0", "0", "0", "0", "0">>

\* a line of free text that begins with the character of a line 1
JUNK_LINE == <<"1", " ", "j", "u", "n", "k">>

\* blocks of lines a text is made of
Block(id) ==
    CASE id = "starlink" -> <<STARLINK_NAME, STARLINK_LINE1, STARLINK_LINE2>>
      [] id = "designator" -> <<DESIGNATOR_NAME, STARLINK_LINE1, STARLINK_LINE2>>
      [] id = "padded" -> <<Pad(ISS_NAME), Pad(ISS_LINE1), Pad(ISS_LINE2)>>
      [] id = "bad_numeric" -> <<BAD_NAME, Substitute(ISS_LINE1, 5, "X"), ISS_LINE2>>
      [] id = "bad_short" -> <<BAD_NAME, Truncate(ISS_LINE1, 7), ISS_LINE2>>
      [] id = "no_line2" -> <<BAD_NAME, ISS_LINE1>>
      [] id = "stray" -> <<STRAY_LINE>>
      [] id = "blank" -> << <<>> >>
      [] id = "iss" -> <<ISS_NAME, ISS_LINE1, ISS_LINE2>>
      [] id = "gps" -> <<GPS_NAME, GPS_LINE1, GPS_LINE2>>
      [] id = "negative_motion" -> <<BAD_NAME, ISS_LINE1, WithMeanMotion(ISS_LINE2, NEGATIVE_MOTION)>>
      [] id = "zero_motion" -> <<BAD_NAME, ISS_LINE1, WithMeanMotion(ISS_LINE2, ZERO_MOTION)>>
      [] id = "junk1" -> <<JUNK_LINE>>
      [] id = "spaces" -> << <<" ", " ">> >>
      [] id = "name" -> <<STARLINK_NAME>>
      [] id = "pair" -> <<STARLINK_LINE1, STARLINK_LINE2>>

GoodBlocks == {"starlink", "designator", "padded"}
BlockIds == GoodBlocks \cup {"bad_numeric", "bad_short", "no_line2", "stray", "blank"}

RECURSIVE LinesOf(_)
LinesOf(blocks) ==
    IF blocks = <<>> THEN <<>> ELSE Block(Head(blocks)) \o LinesOf(Tail(blocks))

\* "\n".join(lines)
RECURSIVE JoinLines(_)
JoinLines(ls) ==
    IF ls = <<>> THEN <<>>
    ELSE IF Len(ls) = 1 THEN ls[1]
    ELSE ls[1] \o <<"\n">> \o JoinLines(Tail(ls))

\* satellite lists for the comparator: the bundled records and records whose
\* mean motion is not positive
CompareIds == {"iss", "starlink", "gps", "negative_motion", "zero_motion"}
CompareTexts == UNION {[1..n -> CompareIds] : n \in 0..MaxBlocks}

Texts == UNION {[1..n -> BlockIds] : n \in 0..MaxBlocks}

\* texts with free text and blank lines before, between and inside records
StrayBlocks == {"stray", "junk1", "blank", "spaces"}
LineIds == {"starlink", "designator", "name", "pair"} \cup StrayBlocks
LineTexts == UNION {[1..n -> LineIds] : n \in 0..MaxBlocks}

\* the text of a sequence of blocks
TextOf(blocks) == JoinLines(LinesOf(blocks))

LineArgs ==
    [name : NameInputs, line1 : Line1Inputs, line2 : Line2Few]
      \cup [name : NameInputs, line1 : Line1Few, line2 : Line2Inputs]

\* the bundled offline dataset
DEFAULT_TLES ==
    JoinLines(<<ISS_NAME, ISS_LINE1, ISS_LINE2,
                STARLINK_NAME, STARLINK_LINE1, STARLINK_LINE2,
                GPS_NAME, GPS_LINE1, GPS_LINE2>>)

\* parse_string is about to be called on the text of a satellite list
ParserCalledOn(texts) ==
    /\ ParserLocalsFresh
    /\ p_pc = "parse_string"
    /\ p_args = NoArgs
    /\ p_blocks \in texts
    /\ p_text = TextOf(p_blocks)

\* one call of the parser is about to be made
ParserCalled ==
    /\ ParserLocalsFresh
    /\ \/ /\ p_pc = "parse_lines"
          /\ p_args \in LineArgs
          /\ p_text = <<>>
          /\ p_blocks = <<>>
       \/ /\ p_pc = "parse_string"
          /\ p_args = NoArgs
          /\ p_blocks \in Texts
          /\ p_text = TextOf(p_blocks)

\* ======================================================================
\* Orbital mechanics (src/utils/orbital.py)
\* A float is modelled as a decimal floating-point number [m, e], the value
\* m * 10^e, with a mantissa of four digits; arithmetic truncates to it.
\* ======================================================================
Abs(x) == IF x < 0 THEN 0 - x ELSE x
Sign(x) == IF x < 0 THEN 0 - 1 ELSE IF x > 0 THEN 1 ELSE 0
RECURSIVE Pow10(_)
Pow10(k) == IF k <= 0 THEN 1 ELSE 10 * Pow10(k - 1)
\* the quotient, truncated towards zero
Quot(a, b) == Sign(a) * Sign(b) * (Abs(a) \div Abs(b))

RECURSIVE Normalize(_, _)
Normalize(m, e) ==
    IF m = 0 THEN [m |-> 0, e |-> 0]
    ELSE IF Abs(m) >= 10000 THEN Normalize(Quot(m, 10), e + 1)
    ELSE IF Abs(m) < 1000 THEN Normalize(m * 10, e - 1)
    ELSE [m |-> m, e |-> e]

FromInt(n) == Normalize(n, 0)
Neg(a) == [m |-> 0 - a.m, e |-> a.e]
Mul(a, b) == Normalize(a.m * b.m, a.e + b.e)
\* a / b for b # 0
Div(a, b) == Normalize(Quot(a.m * 10000, b.m), a.e - b.e - 4)
AddAligned(hi, lo) ==
    IF hi.e - lo.e > 4 THEN hi
    ELSE Normalize(hi.m * Pow10(hi.e - lo.e) + lo.m, lo.e)
Add(a, b) ==
    IF a.m = 0 THEN b
    ELSE IF b.m = 0 THEN a
    ELSE IF a.e >= b.e THEN AddAligned(a, b)
    ELSE AddAligned(b, a)
Sub(a, b) == Add(a, Neg(b))

\* a < b, exact; the operands need not be normalised
Lt(a, b) ==
    IF a.m = 0 THEN 0 < b.m
    ELSE IF b.m = 0 THEN a.m < 0
    ELSE IF a.e - b.e > 5 THEN a.m < 0
    ELSE IF b.e - a.e > 5 THEN 0 < b.m
    ELSE IF a.e >= b.e THEN a.m * Pow10(a.e - b.e) < b.m
    ELSE a.m < b.m * Pow10(b.e - a.e)
Le(a, b) == ~Lt(b, a)

\* the largest r in lo..hi with r^p <= x, for p = 2 and p = 3
RECURSIVE IRoot(_, _, _, _)
IRoot(x, p, lo, hi) ==
    IF lo >= hi THEN lo
    ELSE IF (IF p = 2 THEN ((lo + hi + 1) \div 2) * ((lo + hi + 1) \div 2)
             ELSE ((lo + hi + 1) \div 2) * ((lo + hi + 1) \div 2) * ((lo + hi + 1) \div 2)) <= x
    THEN IRoot(x, p, (lo + hi + 1) \div 2, hi)
    ELSE IRoot(x, p, lo, ((lo + hi + 1) \div 2) - 1)

\* the shift k of from..(from + p - 1) that makes e - k a multiple of p
RootShift(e, p, from) == CHOOSE k \in from..(from + p - 1) : (e - k) % p = 0
RootWith(a, p, k, hi) == Normalize(IRoot(a.m * Pow10(k), p, 0, hi), (a.e - k) \div p)
\* a ** (1.0 / 3.0) and np.sqrt(a), for a > 0
Cbrt(a) == RootWith(a, 3, RootShift(a.e, 3, 3), 1000)
Sqrt(a) == RootWith(a, 2, RootShift(a.e, 2, 4), 31622)

\* round(a, nd), half away from zero
RoundAt(a, drop) ==
    IF drop <= 0 THEN a
    ELSE IF drop > 5 THEN [m |-> 0, e |-> 0]
    ELSE Normalize(Sign(a.m) * ((Abs(a.m) + 5 * Pow10(drop - 1)) \div Pow10(drop)), a.e + drop)
Round(a, nd) == RoundAt(a, 0 - nd - a.e)

\* the float of a decoded decimal
ToNumWith(v, kept) ==
    Normalize((IF v.neg THEN 0 - 1 ELSE 1) * DigitsValue(SubSeq(v.digs, 1, kept)),
              Len(v.digs) - kept - v.scale)
ToNum(v) == ToNumWith(v, Min(4, Len(v.digs)))

EARTH_RADIUS_KM == [m |-> 6371, e |-> 0]
EARTH_MU == [m |-> 3986, e |-> 2]
PI == [m |-> 3141, e |-> -3]

Value(v) == [kind |-> "ok", value |-> Some(v)]
Raises(kind) == [kind |-> kind, value |-> None]

\* the guard without the zero: the division then fails on 0
mean_motion_to_period_zeroAllowed(mean_motion_rev_day) ==
    IF Lt(mean_motion_rev_day, FromInt(0)) THEN Raises("ValueError")
    ELSE IF mean_motion_rev_day.m = 0 THEN Raises("ZeroDivisionError")
    ELSE Value(Div(FromInt(1440), mean_motion_rev_day))

mean_motion_to_period(mean_motion_rev_day) ==
    IF Le(mean_motion_rev_day, FromInt(0)) THEN Raises("ValueError")
    ELSE Value(Div(FromInt(1440), mean_motion_rev_day))

SemiMajorOf(period_seconds) ==
    Cbrt(Div(Mul(EARTH_MU, Mul(period_seconds, period_seconds)),
             Mul(FromInt(4), Mul(PI, PI))))
\* without the conversion of the period to seconds
period_to_semi_major_axis_inMinutes(period_minutes) == SemiMajorOf(period_minutes)
period_to_semi_major_axis(period_minutes) == SemiMajorOf(Mul(period_minutes, FromInt(60)))

calculate_apogee_perigee(semi_major_axis_km, eccentricity) ==
    [apogee |-> Sub(Mul(semi_major_axis_km, Add(FromInt(1), eccentricity)), EARTH_RADIUS_KM),
     perigee |-> Sub(Mul(semi_major_axis_km, Sub(FromInt(1), eccentricity)), EARTH_RADIUS_KM)]

calculate_velocity(semi_major_axis_km) == Sqrt(Div(EARTH_MU, semi_major_axis_km))

classify_orbit_meoClosed(altitude_km) ==
    IF Lt(altitude_km, FromInt(2000)) THEN "LEO"
    ELSE IF Le(altitude_km, FromInt(35000)) THEN "MEO"
    ELSE IF Le(altitude_km, FromInt(36500)) THEN "GEO"
    ELSE "HEO"
classify_orbit(altitude_km) ==
    IF Lt(altitude_km, FromInt(2000)) THEN "LEO"
    ELSE IF Lt(altitude_km, FromInt(35000)) THEN "MEO"
    ELSE IF Le(FromInt(35000), altitude_km) /\ Le(altitude_km, FromInt(36500)) THEN "GEO"
    ELSE "HEO"

OrbitInfo(semi_major, period, apogee, perigee, velocity, orbit_type) ==
    [semi_major_axis_km |-> semi_major,
     period_minutes |-> period,
     apogee_km |-> apogee,
     perigee_km |-> perigee,
     velocity_avg_km_s |-> velocity,
     is_leo |-> orbit_type = "LEO",
     is_meo |-> orbit_type = "MEO",
     is_geo |-> orbit_type = "GEO",
     orbit_type |-> orbit_type]

\* what a call did: the value it returned, or the exception that left it and
\* the callee that raised it; computed lists the callees that returned
Analysed(info) ==
    [kind |-> "ok", stage |-> "return",
     computed |-> <<"mean_motion_to_period", "period_to_semi_major_axis",
                    "calculate_apogee_perigee", "calculate_velocity", "classify_orbit">>,
     value |-> Some(info)]
AnalysisRaised(kind, stage) ==
    [kind |-> kind, stage |-> stage, computed |-> <<>>, value |-> None]

AnalyzeAltitudes(period, semi_major, ap, velocity) ==
    Analysed(OrbitInfo(semi_major, period, ap.apogee, ap.perigee, velocity,
                       classify_orbit(Div(Add(ap.apogee, ap.perigee), FromInt(2)))))
AnalyzeAxis(period, semi_major, eccentricity) ==
    AnalyzeAltitudes(period, semi_major,
                     calculate_apogee_perigee(semi_major, eccentricity),
                     calculate_velocity(semi_major))
AnalyzePeriod(period, eccentricity) ==
    IF period.kind # "ok" THEN AnalysisRaised(period.kind, "mean_motion_to_period")
    ELSE AnalyzeAxis(period.value[1], period_to_semi_major_axis(period.value[1]),
                     eccentricity)
\* a variant that keeps the period of the latest mean_motion_to_period call
analyze_orbit_cachedPeriod(mean_motion, eccentricity, inclination) ==
    AnalyzePeriod(IF a_result.op = "mean_motion_to_period"
                  THEN [kind |-> a_result.kind, value |-> a_result.value]
                  ELSE mean_motion_to_period(mean_motion), eccentricity)

analyze_orbit(mean_motion, eccentricity, inclination) ==
    AnalyzePeriod(mean_motion_to_period(mean_motion), eccentricity)

\* a footprint radius: 0.0 ("zero"), EARTH_RADIUS_KM * arccos(ratio) for a
\* ratio of [-1, 1) ("arc", positive and decreasing in ratio), or nan when
\* arccos is given a ratio below -1
Footprint(ratio) ==
    IF Le(FromInt(1), ratio) THEN [kind |-> "zero", ratio |-> FromInt(1)]
    ELSE IF Lt(ratio, FromInt(0 - 1)) THEN [kind |-> "nan", ratio |-> ratio]
    ELSE [kind |-> "arc", ratio |-> ratio]
CoverageOver(denominator) ==
    IF denominator.m = 0 THEN Raises("ZeroDivisionError")
    ELSE Value(Footprint(Div(EARTH_RADIUS_KM, denominator)))
calculate_coverage_radius(altitude_km) == CoverageOver(Add(EARTH_RADIUS_KM, altitude_km))

\* ---------------------------------------------- calls of the analyzer
MaxAnalyzerCalls == 3   \* most direct calls of the analyzer functions in a behaviour

NoAnalysis ==
    [op |-> "none", kind |-> "ok", stage |-> "none", computed |-> <<>>, value |-> None]

\* the outcome r of a function without callees, as a call result
Plain(r) ==
    [kind |-> r.kind, stage |-> IF r.kind = "ok" THEN "return" ELSE "body",
     computed |-> <<>>, value |-> r.value]

CallOutcome(op, r) ==
    [op |-> op, kind |-> r.kind, stage |-> r.stage, computed |-> r.computed,
     value |-> r.value]

\* the calls made so far whose results are compared with one another; again
\* marks a call whose arguments had been given before
Repeated(op, args) == \E c \in a_log : c.op = op /\ c.args = args
Logged(op, args, out) ==
    a_log \cup {[op |-> op, args |-> args, out |-> out, again |-> Repeated(op, args)]}

\* a client calls op with args and gets r; logged says whether the call is kept
AnalyzerCall(op, args, r, logged) ==
    /\ a_pc = "idle"
    /\ a_calls < MaxAnalyzerCalls
    /\ a_args' = args
    /\ a_result' = CallOutcome(op, r)
    /\ a_calls' = a_calls + 1
    /\ a_log' = IF logged THEN Logged(op, args, r) ELSE a_log
    /\ UNCHANGED <<a_pc, c_satellites, c_k, c_results>>
    /\ UNCHANGED <<predVars, trackVars, parseVars, cliVars>>

call_classify_orbit(altitude_km) ==
    AnalyzerCall("classify_orbit", <<altitude_km>>,
                 Plain(Value(classify_orbit(altitude_km))), FALSE)

call_mean_motion_to_period(mean_motion_rev_day) ==
    AnalyzerCall("mean_motion_to_period", <<mean_motion_rev_day>>,
                 Plain(mean_motion_to_period(mean_motion_rev_day)), TRUE)

call_calculate_coverage_radius(altitude_km) ==
    AnalyzerCall("calculate_coverage_radius", <<altitude_km>>,
                 Plain(calculate_coverage_radius(altitude_km)), FALSE)

call_analyze_orbit(mean_motion, eccentricity, inclination) ==
    AnalyzerCall("analyze_orbit", <<mean_motion, eccentricity, inclination>>,
                 analyze_orbit(mean_motion, eccentricity, inclination), TRUE)

\* ------------------------------------------------------ compare_satellites
\* (src/analysis/comparator.py)
CompareRecord(sat, info, coverage) ==
    [name |-> sat.name,
     norad_id |-> sat.norad_id,
     orbit_type |-> info.orbit_type,
     period_min |-> Round(info.period_minutes, 1),
     apogee_km |-> Round(info.apogee_km, 1),
     perigee_km |-> Round(info.perigee_km, 1),
     velocity_km_s |-> Round(info.velocity_avg_km_s, 2),
     inclination |-> Round(ToNum(sat.inclination), 2),
     eccentricity |-> ToNum(sat.eccentricity),
     coverage_km |-> coverage]

\* the exception swallowed and the element skipped
CompareRaises_skips(kind, stage, computed) ==
    /\ c_k' = c_k + 1
    /\ UNCHANGED <<a_pc, a_result, c_results>>

\* an exception leaves the loop and the function: results is lost
CompareRaises(kind, stage, computed) ==
    /\ a_result' = [op |-> "compare_satellites", kind |-> kind, stage |-> stage,
                    computed |-> computed, value |-> None]
    /\ a_pc' = "idle"
    /\ UNCHANGED <<c_k, c_results>>

\* the record put in front of the earlier ones
CompareAppends_prepends(sat, info, coverage) ==
    /\ c_results' = <<CompareRecord(sat, info, coverage.value[1])>> \o c_results
    /\ c_k' = c_k + 1
    /\ UNCHANGED <<a_pc, a_result>>

CompareAppends(sat, info, coverage) ==
    IF coverage.kind # "ok" THEN CompareRaises(coverage.kind, "calculate_coverage_radius", <<>>)
    ELSE /\ c_results' = Append(c_results, CompareRecord(sat, info, coverage.value[1]))
         /\ c_k' = c_k + 1
         /\ UNCHANGED <<a_pc, a_result>>

CompareAnalysed(sat, analysis) ==
    IF analysis.kind # "ok" THEN CompareRaises(analysis.kind, "analyze_orbit", analysis.computed)
    ELSE CompareAppends(sat, analysis.value[1],
                        calculate_coverage_radius(
                            Div(Add(analysis.value[1].apogee_km, analysis.value[1].perigee_km),
                                FromInt(2))))

CompareElement(sat, args, analysis) ==
    /\ a_log' = Logged("analyze_orbit", args, analysis)
    /\ CompareAnalysed(sat, analysis)

CompareArgs(sat) ==
    <<ToNum(sat.mean_motion), ToNum(sat.eccentricity), ToNum(sat.inclination)>>

\* `results = []`, on the list a parse_string call returned
compare_satellites ==
    /\ a_pc = "idle"
    /\ a_result.op = "none"
    /\ p_pc = "idle"
    /\ p_result.op = "parse_string"
    /\ p_result.kind = "ok"
    /\ a_pc' = "compare"
    /\ a_args' = <<p_result.value>>
    /\ c_satellites' = p_result.value
    /\ c_k' = 1
    /\ c_results' = <<>>
    /\ a_calls' = a_calls + 1
    /\ UNCHANGED <<a_result, a_log>>
    /\ UNCHANGED <<predVars, trackVars, parseVars, cliVars>>

\* one pass of `for sat in satellites`
compare_step ==
    /\ a_pc = "compare"
    /\ c_k <= Len(c_satellites)
    /\ CompareElement(c_satellites[c_k], CompareArgs(c_satellites[c_k]),
                      analyze_orbit(CompareArgs(c_satellites[c_k])[1],
                                    CompareArgs(c_satellites[c_k])[2],
                                    CompareArgs(c_satellites[c_k])[3]))
    /\ UNCHANGED <<a_args, a_calls, c_satellites>>
    /\ UNCHANGED <<predVars, trackVars, parseVars, cliVars>>

\* `return results`
compare_return ==
    /\ a_pc = "compare"
    /\ c_k > Len(c_satellites)
    /\ a_result' = [op |-> "compare_satellites", kind |-> "ok", stage |-> "return",
                    computed |-> <<>>, value |-> Some(c_results)]
    /\ a_pc' = "idle"
    /\ UNCHANGED <<a_args, a_calls, a_log, c_satellites, c_k, c_results>>
    /\ UNCHANGED <<predVars, trackVars, parseVars, cliVars>>

\* ---------------------------------------------- inputs of the analyzer
Hundredths(n) == [m |-> n, e |-> -2]

\* altitudes in km, around each boundary of classify_orbit
Altitudes ==
    {Hundredths(n) : n \in {-10000, 40000, 199999, 200000, 3499999, 3500000,
                            3500001, 3578600, 3650000, 3650001, 4000000}}
MeanMotions ==
    {FromInt(0 - 5), FromInt(0), [m |-> 2005, e |-> -3], [m |-> 1549, e |-> -2]}
\* with two neighbours of the arithmetic whose quotients round alike
PeriodInputs ==
    MeanMotions \cup {FromInt(1), [m |-> 9998, e |-> -3], [m |-> 9999, e |-> -3]}
Eccentricities == {[m |-> 6703, e |-> -7], [m |-> 5000, e |-> -6]}
Inclinations == {FromInt(0), [m |-> 5164, e |-> -2]}
CoverageAltitudes ==
    {FromInt(n) : n \in {0 - 13000, 0 - 7000, 0 - 6371, 0 - 100, 0, 400, 20000, 35786}}



AnalyzerIdle ==
    /\ a_pc = "idle"
    /\ a_args = <<>>
    /\ a_result = NoAnalysis
    /\ a_calls = 0
    /\ a_log = {}
    /\ c_satellites = <<>>
    /\ c_k = 0
    /\ c_results = <<>>

NoResponse == [kind |-> "none", blocks |-> <<>>, text |-> <<>>]

CliIdle ==
    /\ cli_pc = "idle"
    /\ cli_caller = "none"
    /\ cli_offline = FALSE
    /\ cli_response = NoResponse
    /\ cli_fetched = None
    /\ cli_satellites = <<>>
    /\ cli_warned = FALSE

\* ======================================================================
\* Loading the satellite list (main.py:96-110, dashboard.py:43-54,
\* TLEParser.fetch_from_celestrak)
\* ======================================================================
\* parser.parse_string(text) is called
StartsParsing(text, blocks) ==
    /\ p_pc = "idle"
    /\ p_pc' = "parse_string"
    /\ p_text' = text
    /\ p_blocks' = blocks
    /\ UNCHANGED <<p_args, ps_lines, ps_i, ps_satellites, ps_failed, ps_taken,
                   p_result, p_calls>>

ParsingDone == p_pc = "idle" /\ p_result.op = "parse_string" /\ p_result.kind = "ok"

\* requests.get(url, timeout=10) or response.raise_for_status() raises
FetchFails(response) == response.kind # "text"

\* `if args.offline:` / `if use_offline:`, the offline branch
load_offline ==
    /\ cli_pc = "start"
    /\ cli_offline
    /\ StartsParsing(DEFAULT_TLES, <<"iss", "starlink", "gps">>)
    /\ cli_pc' = "offline"
    /\ UNCHANGED <<cli_caller, cli_offline, cli_response, cli_fetched,
                   cli_satellites, cli_warned>>
    /\ UNCHANGED <<predVars, trackVars, anaVars>>

\* satellites = parser.parse_string(DEFAULT_TLES), offline branch
offline_loaded ==
    /\ cli_pc = "offline"
    /\ ParsingDone
    /\ cli_satellites' = p_result.value
    /\ cli_pc' = IF cli_caller = "main" THEN "check" ELSE "select"
    /\ UNCHANGED <<cli_caller, cli_offline, cli_response, cli_fetched, cli_warned>>
    /\ UNCHANGED <<predVars, trackVars, parseVars, anaVars>>

\* the try block of fetch_from_celestrak, up to the call of parse_string;
\* `except Exception: return []`
fetch_from_celestrak ==
    /\ cli_pc = "start"
    /\ ~cli_offline
    /\ IF FetchFails(cli_response)
       THEN /\ cli_fetched' = Some(<<>>)
            /\ cli_pc' = "fetched"
            /\ UNCHANGED parseVars
       ELSE /\ StartsParsing(cli_response.text, cli_response.blocks)
            /\ cli_pc' = "fetching"
            /\ UNCHANGED cli_fetched
    /\ UNCHANGED <<cli_caller, cli_offline, cli_response, cli_satellites, cli_warned>>
    /\ UNCHANGED <<predVars, trackVars, anaVars>>

\* `return self.parse_string(response.text)`
fetch_returns ==
    /\ cli_pc = "fetching"
    /\ ParsingDone
    /\ cli_fetched' = Some(p_result.value)
    /\ cli_pc' = "fetched"
    /\ UNCHANGED <<cli_caller, cli_offline, cli_response, cli_satellites, cli_warned>>
    /\ UNCHANGED <<predVars, trackVars, parseVars, anaVars>>

\* satellites = parser.fetch_from_celestrak(...)
fetched_assigned ==
    /\ cli_pc = "fetched"
    /\ cli_satellites' = cli_fetched[1]
    /\ cli_pc' = "check"
    /\ UNCHANGED <<cli_caller, cli_offline, cli_response, cli_fetched, cli_warned>>
    /\ UNCHANGED <<predVars, trackVars, parseVars, anaVars>>

\* the list used as it came
fallback_if_empty_never ==
    /\ cli_pc = "check"
    /\ cli_pc' = "select"
    /\ UNCHANGED <<cli_caller, cli_offline, cli_response, cli_fetched,
                   cli_satellites, cli_warned>>
    /\ UNCHANGED <<predVars, trackVars, parseVars, anaVars>>

\* `if not satellites:` with the warning of main
fallback_if_empty ==
    /\ cli_pc = "check"
    /\ IF cli_satellites = <<>>
       THEN /\ cli_warned' = (cli_caller = "main")
            /\ StartsParsing(DEFAULT_TLES, <<"iss", "starlink", "gps">>)
            /\ cli_pc' = "fallback"
       ELSE /\ cli_pc' = "select"
            /\ UNCHANGED <<cli_warned, parseVars>>
    /\ UNCHANGED <<cli_caller, cli_offline, cli_response, cli_fetched, cli_satellites>>
    /\ UNCHANGED <<predVars, trackVars, anaVars>>

\* satellites = parser.parse_string(DEFAULT_TLES), fallback
fallback_loaded ==
    /\ cli_pc = "fallback"
    /\ ParsingDone
    /\ cli_satellites' = p_result.value
    /\ cli_pc' = "select"
    /\ UNCHANGED <<cli_caller, cli_offline, cli_response, cli_fetched, cli_warned>>
    /\ UNCHANGED <<predVars, trackVars, parseVars, anaVars>>

\* the list reaches the selection of the target (main.py:113;
\* `return satellites` in load_satellites)
select_target ==
    /\ cli_pc = "select"
    /\ cli_pc' = "done"
    /\ UNCHANGED <<cli_caller, cli_offline, cli_response, cli_fetched,
                   cli_satellites, cli_warned>>
    /\ UNCHANGED <<predVars, trackVars, parseVars, anaVars>>

\* what the live retrieval can do: an exception of requests.get, an HTTP
\* error status, or a body
ResponseIds == {"starlink", "bad_numeric", "no_line2", "stray", "blank"}
ResponseTexts == UNION {[1..n -> ResponseIds] : n \in 0..MaxBlocks}
Responses ==
    {[kind |-> k, blocks |-> <<>>, text |-> <<>>] : k \in {"ConnectionError", "Timeout"}}
      \cup {[kind |-> k, blocks |-> b, text |-> TextOf(b)] :
               k \in {"HTTPError", "text"}, b \in ResponseTexts}

\* main or load_satellites is about to load the list
LoaderCalled ==
    /\ cli_pc = "start"
    /\ cli_caller \in {"main", "load_satellites"}
    /\ cli_offline \in BOOLEAN
    /\ cli_response \in Responses
    /\ cli_fetched = None
    /\ cli_satellites = <<>>
    /\ cli_warned = FALSE

\* ------------------------------------------------------------------- Init
Orbits == [1..OrbitPeriod -> Elevations]

\* the objects after construction, nothing called yet
InitWith(orbs, mins, ephs) ==
    /\ min_elevation \in mins
    /\ eph \in ephs
    /\ satellites = {}
    /\ orbit \in orbs
    /\ pc = "idle"
    /\ caller = "none"
    /\ sat_name = "none"
    /\ start_time = 0
    /\ end_time = 0
    /\ floor_arg = 0
    /\ current = 0
    /\ prev_el = None
    /\ in_pass = FALSE
    /\ pass_start = None
    /\ pass_start_az = None
    /\ max_el = INITIAL_MAX_EL
    /\ max_el_time = None
    /\ events = <<>>
    /\ passes = <<>>
    /\ result = NoResult
    /\ samples = <<>>
    /\ lookups = <<>>
    /\ tracker_satellites = {}
    /\ tracker_result = [op |-> "none", name |-> "none", value |-> None]
    /\ AnalyzerIdle

Init == InitWith(Orbits, MinElevations, BOOLEAN) /\ ParserIdle /\ CliIdle

Next ==
    \/ add_satellite("ISS")
    \/ \E n \in Names, d \in 1..MaxDays, st \in StartTimes : find_passes(n, d, st)
    \/ \E n \in Names : find_passes_unknown(n)
    \/ \E n \in Names, fl \in Floors, st \in StartTimes : get_next_pass(n, fl, st)
    \/ \E n \in Names, fl \in Floors : get_next_pass_unknown(n, fl)
    \/ ScanStep
    \/ ScanDone
    \/ BuildPassNoEph
    \/ BuildPassLookup
    \/ find_passes_return
    \/ get_next_pass_return

Spec == Init /\ [][Next]_vars

\* ------------------------------------------- searches over any window
\* `days` as any integer: a window may be empty or end before it starts
WindowDays == (0 - 1)..MaxDays

InitScan == InitWith(Orbits, MinElevations, BOOLEAN) /\ ParserIdle /\ CliIdle

NextScan ==
    \/ add_satellite("ISS")
    \/ \E d \in WindowDays, st \in StartTimes : find_passes("ISS", d, st)
    \/ \E fl \in Floors, st \in StartTimes : get_next_pass("ISS", fl, st)
    \/ ScanStep
    \/ ScanDone
    \/ BuildPassNoEph
    \/ BuildPassLookup
    \/ find_passes_return
    \/ get_next_pass_return

SpecScan == InitScan /\ [][NextScan]_vars

\* ------------------------------------------------ the 60-minute scenario
\* find_passes entered with a 60-minute window from minute 0: below the
\* threshold for minutes 0..4, at or above it for minutes 5..34 with the
\* single maximum 45 at minute 20, below it for minutes 35..59.
ScenarioOrbit(lo, before, after) ==
    [k \in 1..60 |->
        IF k - 1 < 5 \/ k - 1 >= 35 THEN lo
        ELSE IF k - 1 < 20 THEN before
        ELSE IF k - 1 = 20 THEN 45
        ELSE after]

ScenarioOrbits ==
    {ScenarioOrbit(lo, b, a) : lo \in {0, 5, 9}, b \in {10, 30}, a \in {10, 30, 44}}

InitScenario ==
    /\ min_elevation = 10
    /\ eph \in BOOLEAN
    /\ satellites = {"ISS"}
    /\ orbit \in ScenarioOrbits
    /\ pc = "scan"
    /\ caller = "find_passes"
    /\ sat_name = "ISS"
    /\ start_time = 0
    /\ end_time = Minutes(60)
    /\ floor_arg = 0
    /\ current = 0
    /\ prev_el = None
    /\ in_pass = FALSE
    /\ pass_start = None
    /\ pass_start_az = None
    /\ max_el = INITIAL_MAX_EL
    /\ max_el_time = None
    /\ events = <<>>
    /\ passes = <<>>
    /\ result = NoResult
    /\ samples = <<>>
    /\ lookups = <<>>
    /\ tracker_satellites = {}
    /\ tracker_result = [op |-> "none", name |-> "none", value |-> None]
    /\ ParserIdle
    /\ AnalyzerIdle
    /\ CliIdle

NextScenario ==
    \/ ScanStep
    \/ ScanDone
    \/ BuildPassNoEph
    \/ BuildPassLookup
    \/ find_passes_return

SpecScenario == InitScenario /\ [][NextScenario]_vars

\* ------------------------------------------------ the analyzer alone
InitOrbit ==
    InitWith({[k \in 1..OrbitPeriod |-> 5]}, {10}, {FALSE}) /\ ParserIdle /\ CliIdle

NextOrbit ==
    \/ \E alt \in Altitudes : call_classify_orbit(alt)
    \/ \E n \in PeriodInputs : call_mean_motion_to_period(n)
    \/ \E alt \in CoverageAltitudes : call_calculate_coverage_radius(alt)
    \/ \E n \in MeanMotions, ecc \in Eccentricities, inc \in Inclinations :
          call_analyze_orbit(n, ecc, inc)

SpecOrbit == InitOrbit /\ [][NextOrbit]_vars

\* ----------------------------------- a parsed list given to the comparator
InitCompare ==
    /\ InitWith({[k \in 1..OrbitPeriod |-> 5]}, {10}, {FALSE})
    /\ ParserCalledOn(CompareTexts)
    /\ CliIdle

NextCompare ==
    \/ parse_string
    \/ parse_string_step
    \/ parse_string_return
    \/ compare_satellites
    \/ compare_step
    \/ compare_return

SpecCompare == InitCompare /\ [][NextCompare]_vars

\* --------------------------------------------- loading the satellite list
InitCli ==
    /\ InitWith({[k \in 1..OrbitPeriod |-> 5]}, {10}, {FALSE})
    /\ ParserIdle
    /\ LoaderCalled

NextCli ==
    \/ load_offline
    \/ offline_loaded
    \/ fetch_from_celestrak
    \/ fetch_returns
    \/ fetched_assigned
    \/ fallback_if_empty
    \/ fallback_loaded
    \/ select_target
    \/ parse_string
    \/ parse_string_step
    \/ parse_string_return

SpecCli == InitCli /\ [][NextCli]_vars

\* ------------------------------------------- registry lookups of both objects
LookupOrbits == {o \in Orbits : o[1] = 5 /\ \A i \in 3..OrbitPeriod : o[i] = 5}

InitLookup == InitWith(LookupOrbits, MinElevations, BOOLEAN) /\ ParserIdle /\ CliIdle

NextLookup ==
    \/ \E n \in Names : add_satellite(n)
    \/ \E n \in Names : find_passes(n, 1, 0)
    \/ \E n \in Names : find_passes_unknown(n)
    \/ \E n \in Names : get_next_pass(n, 45, 0)
    \/ \E n \in Names : get_next_pass_unknown(n, 45)
    \/ ScanStep
    \/ ScanDone
    \/ BuildPassNoEph
    \/ BuildPassLookup
    \/ find_passes_return
    \/ get_next_pass_return
    \/ \E n \in Names : tracker_add_satellite(n)
    \/ \E n \in Names : get_position(n, 0)

SpecLookup == InitLookup /\ [][NextLookup]_vars

\* ------------------------------------------------- the tracker's look angles
VisibleFloors == {0 - 5, 0, 10, 45}     \* min_elevation arguments of is_visible
LookTimes == {Minutes(k) : k \in 0..(OrbitPeriod - 1)}

InitVisible == InitWith(Orbits, {10}, {FALSE}) /\ ParserIdle /\ CliIdle

NextVisible ==
    \/ \E n \in Names : tracker_add_satellite(n)
    \/ \E n \in Names, t \in LookTimes : get_look_angle(n, t)
    \/ \E n \in Names, m \in VisibleFloors, t \in LookTimes : is_visible(n, m, t)

SpecVisible == InitVisible /\ [][NextVisible]_vars

\* ------------------------------------------------------- the parser alone
InitParse ==
    InitWith({[k \in 1..OrbitPeriod |-> 5]}, {10}, {FALSE}) /\ ParserCalled /\ CliIdle

NextParse ==
    \/ parse_lines
    \/ parse_string
    \/ parse_string_step
    \/ parse_string_return
    \/ call_again

SpecParse == InitParse /\ [][NextParse]_vars

\* ------------------------------------- parse_string on loosely laid out text
InitLines ==
    /\ InitWith({[k \in 1..OrbitPeriod |-> 5]}, {10}, {FALSE})
    /\ ParserCalledOn(LineTexts)
    /\ CliIdle

NextLines ==
    \/ parse_string
    \/ parse_string_step
    \/ parse_string_return

SpecLines == InitLines /\ [][NextLines]_vars

\* --------------------------------------- parse_lines on the packed fields
\* a packed field: sign column, five mantissa digits, exponent sign and digit;
\* also a field of four digits after a blank, with and without a sign
PACKED_WIDTH == 8       \* line1[44:52] and line1[53:61]
BlankField == [k \in 1..PACKED_WIDTH |-> " "]
Mantissas ==
    {<<"1", "2", "3", "4", "5">>, <<"0", "0", "0", "0", "0">>,
     <<"3", "0", "0", "0", "0">>}
PackedFields ==
    {<<lead>> \o ds \o <<es, ed>> :
        lead \in {" ", "+", "-"}, ds \in Mantissas, es \in {"+", "-"},
        ed \in {"0", "3"}}
      \cup {BlankField, <<" ", "-", "1", "2", "3", "4", "-", "3">>,
            <<" ", " ", "1", "2", "3", "4", "-", "3">>}

\* line 1 with the two packed fields replaced
WithPacked(line1, ddot, bstar) ==
    SubSeq(line1, 1, 44) \o ddot \o <<" ">> \o bstar \o SubSeq(line1, 62, Len(line1))
PackedArgs ==
    {[name |-> ISS_NAME, line1 |-> WithPacked(ISS_LINE1, ddot, bstar),
      line2 |-> ISS_LINE2] : ddot \in PackedFields, bstar \in PackedFields}

InitPacked ==
    /\ InitWith({[k \in 1..OrbitPeriod |-> 5]}, {10}, {FALSE})
    /\ ParserLocalsFresh
    /\ p_pc = "parse_lines"
    /\ p_args \in PackedArgs
    /\ p_text = <<>>
    /\ p_blocks = <<>>
    /\ CliIdle

NextPacked == parse_lines

SpecPacked == InitPacked /\ [][NextPacked]_vars

\* ======================================================================
\* Properties
\* ======================================================================
\* the sample instants of the window [st, en)
WindowTimes(st, en) ==
    IF en <= st THEN {} ELSE {st + 60 * k : k \in 0..((en - st - 1) \div 60)}

UpCrossing(t, st) ==
    /\ t - 60 >= st
    /\ ElevationAt(t - 60) < min_elevation
    /\ ElevationAt(t) >= min_elevation

DownCrossing(t, st) ==
    /\ t - 60 >= st
    /\ ElevationAt(t - 60) >= min_elevation
    /\ ElevationAt(t) < min_elevation

\* the downward crossings of the window that follow an upward crossing of it
BoundedDownCrossings(st, en) ==
    {t \in WindowTimes(st, en) :
        /\ DownCrossing(t, st)
        /\ \E u \in WindowTimes(st, en) : u < t /\ UpCrossing(u, st)}

Returned(op) == pc = "idle" /\ result.op = op /\ result.searched

\* C1: find_passes reports exactly the downward crossings of the window that
\* follow an upward crossing of the same window; a pass that has risen and
\* has no later sample below the threshold inside the window is not reported,
\* so a window with an upward crossing and no downward crossing gives no pass.
C1_OpenPassDiscarded ==
    Returned("find_passes") =>
        LET W == WindowTimes(start_time, end_time)
        IN /\ Len(result.value) = Cardinality(BoundedDownCrossings(start_time, end_time))
           /\ \A i \in 1..Len(result.value) :
                 /\ result.value[i].los_time \in W
                 /\ ElevationAt(result.value[i].los_time) < min_elevation
           /\ ( /\ \E u \in W : UpCrossing(u, start_time)
                /\ ~ \E d \in W : DownCrossing(d, start_time) )
              => result.value = <<>>

C1_Witness ==
    /\ Returned("find_passes")
    /\ \E u \in WindowTimes(start_time, end_time) : UpCrossing(u, start_time)
    /\ ~ \E d \in WindowTimes(start_time, end_time) : DownCrossing(d, start_time)
    /\ result.value = <<>>

\* C2: in the 60-minute scenario (threshold 10, rise at minute 5, single
\* maximum 45 at minute 20, set at minute 35) find_passes returns exactly one
\* pass: aos minute 5, peak 45 at minute 20, los minute 35, 1800 seconds.
C2_ScenarioOnePass ==
    Returned("find_passes") =>
        /\ Len(result.value) = 1
        /\ result.value[1].aos_time = 5 * 60
        /\ result.value[1].max_elevation_deg = 45
        /\ result.value[1].max_elevation_time = 20 * 60
        /\ result.value[1].los_time = 35 * 60
        /\ result.value[1].duration_seconds = 1800

C2_Witness ==
    /\ Returned("find_passes")
    /\ Len(samples) = 60
    /\ Len(result.value) = 1
    /\ result.value[1].duration_seconds = 1800

\* C3: every returned pass has duration_seconds = los_time - aos_time, and
\* that is at least one 60-second sampling step.
C3_DurationIsLosMinusAos ==
    Returned("find_passes") =>
        \A i \in 1..Len(result.value) :
            /\ result.value[i].duration_seconds
                   = result.value[i].los_time - result.value[i].aos_time
            /\ result.value[i].duration_seconds >= 60

C3_Witness ==
    /\ Returned("find_passes")
    /\ \E i \in 1..Len(result.value) :
          /\ result.value[i].duration_seconds >= 120
          /\ result.value[i].max_elevation_time > result.value[i].aos_time

\* C4: a search for a name that is not registered returns the empty list at
\* once, samples nothing and leaves the registry alone; get_position of the
\* tracker returns None for a name that is not registered.
C4_UnknownNameSoftFailure ==
    /\ [][ ( /\ pc = "idle"
             /\ caller' = "find_passes"
             /\ sat_name' \notin satellites
             /\ <<caller', sat_name', result', pc'>> # <<caller, sat_name, result, pc>> )
           => ( /\ pc' = "idle"
                /\ result'.op = "find_passes"
                /\ result'.value = <<>>
                /\ samples' = <<>>
                /\ satellites' = satellites ) ]_vars
    /\ [][ ( /\ tracker_result' # tracker_result
             /\ tracker_result'.name \notin tracker_satellites )
           => ( /\ tracker_result'.op = "get_position"
                /\ tracker_result'.value = None
                /\ tracker_satellites' = tracker_satellites ) ]_vars

C4_Witness ==
    /\ pc = "idle"
    /\ result.op = "find_passes"
    /\ ~result.searched
    /\ result.value = <<>>
    /\ satellites # {}
    /\ sat_name \notin satellites
    /\ tracker_result.op = "get_position"
    /\ tracker_result.value = None
    /\ tracker_satellites # {}
    /\ tracker_result.name \notin tracker_satellites

\* C5: get_next_pass searches 7 days and returns the first pass, in time order,
\* whose peak elevation is >= the floor; None exactly when no pass reaches it.
C5_NextPassFirstAtFloor ==
    /\ (pc = "idle" /\ result.op = "get_next_pass" /\ ~result.searched)
          => result.value = None
    /\ Returned("get_next_pass") =>
        /\ end_time - start_time = 7 * MinutesPerDay * 60
        /\ Len(passes) = Cardinality(BoundedDownCrossings(start_time, end_time))
        /\ (result.value = None)
              <=> (\A i \in 1..Len(passes) : passes[i].max_elevation_deg < floor_arg)
        /\ result.value # None =>
              \E i \in 1..Len(passes) :
                 /\ result.value[1] = passes[i]
                 /\ passes[i].max_elevation_deg >= floor_arg
                 /\ \A j \in 1..Len(passes) :
                       passes[j].max_elevation_deg >= floor_arg
                          => /\ i <= j
                             /\ passes[i].aos_time <= passes[j].aos_time

C5_Witness ==
    /\ Returned("get_next_pass")
    /\ result.value # None
    /\ result.value[1].max_elevation_deg = floor_arg
    /\ result.value[1] # passes[1]

\* C6: with the ephemeris not loaded, or the sunlit lookup raising, find_passes
\* still returns every detected pass, is_sunlit False on the passes affected,
\* and the other fields are those of the detected pass.
C6_SunlitFailureIsSoft ==
    Returned("find_passes") =>
        /\ Len(result.value) = Cardinality(BoundedDownCrossings(start_time, end_time))
        /\ Len(result.value) = Len(events)
        /\ Len(lookups) = (IF eph THEN Len(events) ELSE 0)
        /\ \A i \in 1..Len(result.value) :
              /\ result.value[i].aos_time = events[i].aos_time
              /\ result.value[i].los_time = events[i].los_time
              /\ result.value[i].max_elevation_time = events[i].max_el_time
              /\ result.value[i].max_elevation_deg = events[i].max_el
              /\ result.value[i].aos_azimuth = events[i].aos_az
              /\ result.value[i].los_azimuth = events[i].los_az
              /\ ~eph => ~result.value[i].is_sunlit
              /\ (eph /\ lookups[i].outcome = "raise") => ~result.value[i].is_sunlit
              /\ (eph /\ lookups[i].outcome = "sunlit") => result.value[i].is_sunlit

C6_Witness ==
    /\ Returned("find_passes")
    /\ eph
    /\ Len(result.value) >= 2
    /\ \E i \in 1..Len(result.value) :
          lookups[i].outcome = "raise" /\ ~result.value[i].is_sunlit

\* ------------------------------------------------------------ the parser
ParseLinesReturned == p_pc = "idle" /\ p_result.op = "parse_lines"
ParseStringReturned == p_pc = "idle" /\ p_result.op = "parse_string"

WrongPrefix(line1, line2) == ~StartsWith(line1, "1") \/ ~StartsWith(line2, "2")

RaisedAtPrefixCheck(r) ==
    r.kind = "ValueError" /\ r.stage = "prefix" /\ r.value = None

Trims(args, r) ==
    r.kind = "ok" =>
        /\ r.value[1].name = Strip(args.name)
        /\ r.value[1].line1 = Strip(args.line1)
        /\ r.value[1].line2 = Strip(args.line2)

\* C7: parse_lines strips its three arguments, and when the stripped line1
\* does not start with "1" or the stripped line2 does not start with "2" it
\* raises ValueError at the prefix check, before any field is parsed, and
\* returns no record.
C7_WrongPrefixRaisesFirst ==
    ParseLinesReturned =>
        /\ WrongPrefix(Strip(p_args.line1), Strip(p_args.line2))
              => RaisedAtPrefixCheck(p_result)
        /\ Trims(p_args, p_result)

\* line1 is right but too short for the fields, line2 has the wrong prefix
C7_Witness ==
    /\ ParseLinesReturned
    /\ p_args.line1 = Truncate(ISS_LINE1, 7)
    /\ p_args.line2 = BAD_LINE2
    /\ RaisedAtPrefixCheck(p_result)

\* the columns parse_lines converts to numbers, as [from, to) slices
LINE1_COLUMNS == 61     \* line 1 is read up to line1[53:61]
LINE2_COLUMNS == 68     \* line 2 is read up to line2[63:68]
NumericSlices1 ==
    {<<2, 7>>, <<9, 11>>, <<11, 14>>, <<18, 20>>, <<20, 32>>, <<33, 43>>,
     <<44, 52>>, <<53, 61>>}
NumericSlices2 ==
    {<<8, 16>>, <<17, 25>>, <<26, 33>>, <<34, 42>>, <<43, 51>>, <<52, 63>>,
     <<63, 68>>}
NumericChars == {DigitChars[d] : d \in 1..10} \cup {" ", ".", "+", "-"}

HasNonNumeric(line, slices) ==
    \E sl \in slices : \E k \in (sl[1] + 1)..Min(sl[2], Len(line)) :
        line[k] \notin NumericChars

Malformed(line1, line2) ==
    \/ Len(line1) < LINE1_COLUMNS
    \/ Len(line2) < LINE2_COLUMNS
    \/ HasNonNumeric(line1, NumericSlices1)
    \/ HasNonNumeric(line2, NumericSlices2)

FormatErrorOnly(line1, line2, r) ==
    /\ r.kind \in {"ok", "ValueError"}
    /\ (~WrongPrefix(line1, line2) /\ Malformed(line1, line2))
          => (r.kind = "ValueError" /\ r.value = None)

\* C8: every failure of parse_lines is a ValueError, and for every pair of
\* lines with the right prefixes that is malformed (a non-numeric character in
\* a numeric column, or a line too short for a column that is read)
\* parse_lines raises ValueError and returns no record.
C8_EveryFailureIsFormatError ==
    ParseLinesReturned =>
        FormatErrorOnly(Strip(p_args.line1), Strip(p_args.line2), p_result)

\* n is the 0-based index of a line of the text
WellFormedAt(n) ==
    /\ n + 3 <= Len(ps_lines)
    /\ Strip(ps_lines[n + 1]) # <<>>
    /\ ParseLines(ps_lines[n + 1], ps_lines[n + 2], ps_lines[n + 3]).kind = "ok"

TakenAt(n) == \E k \in 1..Len(ps_taken) : ps_taken[k] = n

\* some line of the triple at n belongs to another triple that was returned
SharedWithTaken(n) ==
    \E k \in 1..Len(ps_taken) :
        ps_taken[k] # n /\ ps_taken[k] - n < 3 /\ n - ps_taken[k] < 3

\* C9: a group that passes the prefix check and fails decoding contributes no
\* record and raises nothing, and every well-formed (name, line 1, line 2)
\* record after it in the text is still returned.
C9_BadGroupHidesNothing ==
    ParseStringReturned =>
        /\ p_result.kind = "ok"
        /\ Len(p_result.value) = Len(ps_taken)
        /\ \A g \in ps_failed : ~TakenAt(g)
        /\ \A g \in ps_failed : \A n \in (g + 3)..(Len(ps_lines) - 3) :
              (WellFormedAt(n) /\ ~SharedWithTaken(n)) => TakenAt(n)

SameAsAlone(record, r) == r.kind = "ok" /\ record = r.value[1]

\* C10: for a text that is a concatenation of well-formed triples,
\* parse_string returns one record per triple, in order, the k-th equal in
\* every field to parse_lines of the k-th triple alone, on the first call of
\* the parser and on a later one.
C10_BatchEqualsSingles ==
    (ParseStringReturned /\ \A k \in 1..Len(p_blocks) : p_blocks[k] \in GoodBlocks) =>
        /\ p_result.kind = "ok"
        /\ Len(p_result.value) = Len(p_blocks)
        /\ \A k \in 1..Len(p_blocks) :
              k <= Len(p_result.value) =>
                 SameAsAlone(p_result.value[k],
                             ParseLines(Block(p_blocks[k])[1], Block(p_blocks[k])[2],
                                        Block(p_blocks[k])[3]))

C10_Witness ==
    /\ ParseStringReturned
    /\ p_calls >= 2
    /\ p_blocks = <<"padded", "designator", "starlink">>
    /\ Len(p_result.value) = 3
    /\ p_result.value[2].name = DESIGNATOR_NAME

\* comparisons of a decoded decimal with an integer
IntegerPart(v) ==
    IF v.scale >= Len(v.digs) THEN 0
    ELSE IF v.scale >= 0 THEN DigitsValue(SubSeq(v.digs, 1, Len(v.digs) - v.scale))
    ELSE DigitsValue(v.digs \o [k \in 1..(0 - v.scale) |-> "0"])
IsPositive(v) == ~v.neg /\ v.digs # <<>>
Below(v, n) == v.neg \/ IntegerPart(v) < n
AtMost(v, n) == v.neg \/ IntegerPart(v) < n \/ (IntegerPart(v) = n /\ v.scale <= 0)

RecordInRange(t) ==
    /\ ~t.inclination.neg /\ AtMost(t.inclination, 180)
    /\ ~t.raan.neg /\ Below(t.raan, 360)
    /\ ~t.arg_perigee.neg /\ Below(t.arg_perigee, 360)
    /\ ~t.mean_anomaly.neg /\ Below(t.mean_anomaly, 360)
    /\ ~t.eccentricity.neg /\ Below(t.eccentricity, 1)
    /\ IsPositive(t.mean_motion)

\* C11: every record parse_lines or parse_string returns has inclination in
\* [0, 180], RAAN, argument of perigee and mean anomaly in [0, 360),
\* eccentricity in [0, 1) and mean motion > 0.
C11_RecordsInRange ==
    /\ (ParseLinesReturned /\ p_result.kind = "ok") => RecordInRange(p_result.value[1])
    /\ ParseStringReturned =>
          \A k \in 1..Len(p_result.value) : RecordInRange(p_result.value[k])

\* C12: parse_string of the empty string, and of any text with fewer than three
\* lines, returns an empty sequence and raises nothing.
C12_FewLinesGiveNoRecords ==
    (ParseStringReturned /\ Len(Split(p_text, "\n")) < 3) =>
        (p_result.kind = "ok" /\ p_result.value = <<>>)

C12_Witness ==
    /\ ParseStringReturned
    /\ p_text = <<>>
    /\ p_result.kind = "ok"
    /\ p_result.value = <<>>


\* ------------------------------------------------ properties of the analyzer
ClassifyReturned == a_result.op = "classify_orbit" /\ a_result.kind = "ok"

\* the altitude of the classify_orbit call, in hundredths of a km
AltitudeHundredths == a_args[1].m * Pow10(a_args[1].e + 2)

ClassIs(name) == a_result.value = Some(name)

PeriodCalls == {c \in a_log : c.op = "mean_motion_to_period"}
PeriodReturned == a_result.op = "mean_motion_to_period"

\* q is the quotient 1440 / n to the precision of the arithmetic
IsQuotient(q, n, scale) ==
    /\ q.m * n.m <= 1440 * scale
    /\ (q.m + 1) * n.m > 1440 * scale

PeriodContract ==
    PeriodReturned =>
        /\ a_args[1].m <= 0 => a_result.kind = "ValueError" /\ a_result.value = None
        /\ a_args[1].m > 0 =>
              /\ a_result.kind = "ok"
              /\ IsQuotient(a_result.value[1], a_args[1],
                            Pow10(0 - (a_result.value[1].e + a_args[1].e)))

Periods == {c \in PeriodCalls : c.out.kind = "ok"}

CoverageCalled == a_result.op = "calculate_coverage_radius"

\* the returned radius is exactly 0.0, or a number above 0
ReturnsZero == a_result.kind = "ok" /\ a_result.value[1].kind = "zero"
ReturnsPositive == a_result.kind = "ok" /\ a_result.value[1].kind = "arc"

\* C15: calculate_coverage_radius never raises, returns exactly 0.0 for every
\* altitude <= 0 (-6371 km and the altitudes below it included) and a value
\* above 0 for every altitude > 0.
C15_CoverageNeverRaises ==
    CoverageCalled =>
        /\ a_result.kind = "ok"
        /\ a_args[1].m <= 0 => ReturnsZero
        /\ a_args[1].m > 0 => ReturnsPositive

AnalyzeCalls == {c \in a_log : c.op = "analyze_orbit"}

SameResults == \A c1 \in AnalyzeCalls : \A c2 \in AnalyzeCalls :
                   c1.args = c2.args => c1.out = c2.out

\* what a call of analyze_orbit may change: the caller's record of the call
AnalyzeStep == a_result'.op = "analyze_orbit" /\ a_calls' = a_calls + 1
OnlyTheResult ==
    UNCHANGED <<predVars, trackVars, parseVars, cliVars, c_satellites, c_k, c_results>>

CompareFinished == a_pc = "idle" /\ a_result.op = "compare_satellites"
CompareReturned == CompareFinished /\ a_result.kind = "ok"

NotPositive(x) == x.m <= 0
SomeNotPositive == \E k \in 1..Len(c_satellites) : NotPositive(ToNum(c_satellites[k].mean_motion))

\* the call raised ValueError in mean_motion_to_period, before any other callee
RaisedAtOnce(out) ==
    /\ out.kind = "ValueError"
    /\ out.stage = "mean_motion_to_period"
    /\ out.computed = <<>>
    /\ out.value = None

\* C16: analyze_orbit with mean_motion <= 0 raises ValueError before the
\* semi-major axis, apogee/perigee, velocity or class is computed and returns
\* no OrbitInfo; compare_satellites on a list with such an element ends with
\* that error, neither skipping the element nor returning partial results.
C16_DomainErrorPropagates ==
    /\ \A c \in AnalyzeCalls : NotPositive(c.args[1]) => RaisedAtOnce(c.out)
    /\ CompareFinished /\ SomeNotPositive =>
          /\ a_result.kind = "ValueError"
          /\ a_result.stage = "analyze_orbit"
          /\ a_result.value = None
    /\ a_pc = "compare" =>
          \A k \in 1..(c_k - 1) : ~NotPositive(ToNum(c_satellites[k].mean_motion))

C16_Witness ==
    /\ CompareFinished
    /\ a_result.kind = "ValueError"
    /\ c_k = 2
    /\ Len(c_results) = 1
    /\ NotPositive(ToNum(c_satellites[2].mean_motion))
    /\ \E c \in AnalyzeCalls : c.args[1].m = 0 /\ RaisedAtOnce(c.out)

AnalysisOf(sat) == {c \in AnalyzeCalls : c.args = CompareArgs(sat)}
ClassifiedAs(sat, name) ==
    /\ AnalysisOf(sat) # {}
    /\ \A c \in AnalysisOf(sat) : c.out.kind = "ok" /\ c.out.value[1].orbit_type = name

NamesOf(records) == [k \in 1..Len(records) |-> records[k].name]

\* C17: parse_string on DEFAULT_TLES returns exactly 3 records, named in order
\* ISS (ZARYA), STARLINK-1007 and GPS BIIR-2; analyze_orbit on the decoded
\* mean motion and eccentricity classifies the ISS record as LEO and the GPS
\* record as MEO.
C17_BundledDataset ==
    p_text = DEFAULT_TLES =>
        /\ ParseStringReturned =>
              /\ p_result.kind = "ok"
              /\ NamesOf(p_result.value) = <<ISS_NAME, STARLINK_NAME, GPS_NAME>>
        /\ CompareFinished =>
              /\ CompareReturned
              /\ ClassifiedAs(c_satellites[1], "LEO")
              /\ ClassifiedAs(c_satellites[3], "MEO")

C17_Witness ==
    /\ p_text = DEFAULT_TLES
    /\ CompareReturned
    /\ Len(p_result.value) = 3
    /\ a_result.value[1][1].orbit_type = "LEO"
    /\ a_result.value[1][3].orbit_type = "MEO"

SameIdentity(r, sat) == r.name = sat.name /\ r.norad_id = sat.norad_id

\* C18: compare_satellites returns one record per input element, in input
\* order: on a list s whose mean motions are all > 0 the result r has
\* len(r) = len(s), r[k].name = s[k].name and r[k].norad_id = s[k].norad_id
\* for every k, and the input records are unchanged.
C18_OneRecordPerElement ==
    /\ CompareFinished /\ ~SomeNotPositive =>
          /\ CompareReturned
          /\ Len(a_result.value[1]) = Len(a_args[1])
          /\ \A k \in 1..Len(a_args[1]) : SameIdentity(a_result.value[1][k], a_args[1][k])
    /\ a_pc = "compare" \/ CompareFinished =>
          c_satellites = a_args[1] /\ p_result.value = a_args[1]

C18_Witness ==
    /\ CompareReturned
    /\ Len(a_result.value[1]) = 3
    /\ a_args[1][1].name # a_args[1][2].name
    /\ a_args[1][2].name # a_args[1][3].name

\* ------------------------------------------------- properties of the loader
AtSelection == cli_pc \in {"select", "done"}
FetchReturned == cli_fetched # None
NothingUsable == FetchReturned /\ cli_fetched[1] = <<>>

\* C19: in main and in load_satellites, whatever the live retrieval does, the
\* list that reaches the selection of the target is not empty:
\* fetch_from_celestrak returns an empty list when the retrieval fails, and an
\* empty list is replaced by the parsed DEFAULT_TLES (main prints a warning)
\* before a satellite is selected.
C19_ListNeverEmpty ==
    /\ AtSelection => cli_satellites # <<>>
    /\ FetchReturned /\ FetchFails(cli_response) => cli_fetched = Some(<<>>)
    /\ AtSelection /\ NothingUsable =>
          /\ NamesOf(cli_satellites) = <<ISS_NAME, STARLINK_NAME, GPS_NAME>>
          /\ cli_caller = "main" => cli_warned

C19_Witness ==
    /\ cli_pc = "done"
    /\ cli_caller = "main"
    /\ cli_response.kind = "text"
    /\ cli_response.blocks = <<"stray", "bad_numeric">>
    /\ NothingUsable
    /\ cli_warned
    /\ Len(cli_satellites) = 3

\* ------------------------------------------------ properties of the scan
Scanning == pc \in {"scan", "build"}
Sampled == {samples[i] : i \in 1..Len(samples)}

\* the latest sample before k at which the elevation crossed the threshold upward
Rises(k) == {j \in Sampled : j < k /\ UpCrossing(j, start_time)}
RiseOf(k) == CHOOSE j \in Rises(k) : \A j2 \in Rises(k) : j2 <= j

\* the samples at which a pass is emitted: a downward crossing, in-pass
EmittedAt == {k \in Sampled : DownCrossing(k, start_time) /\ Rises(k) # {}}

\* in-pass after the latest sample: a rise, and no downward crossing since
InPassNow ==
    \E j \in Sampled : /\ UpCrossing(j, start_time)
                       /\ \A m \in Sampled : m >= j => ElevationAt(m) >= min_elevation

\* C21: a pass is emitted exactly at a sample k with elevation(k-1) >=
\* min_elevation > elevation(k) while in-pass; its rise sample j is the latest
\* sample before k with elevation(j-1) < min_elevation <= elevation(j); the
\* pass has the time and azimuth of sample j as aos and those of sample k as
\* los, and after the emission the scan is below the threshold again.
C21_EmittedAtTheSet ==
    Scanning =>
        /\ {events[i].los_time : i \in 1..Len(events)} = EmittedAt
        /\ Len(events) = Cardinality(EmittedAt)
        /\ \A i \in 1..Len(events) :
              /\ events[i].aos_time = RiseOf(events[i].los_time)
              /\ events[i].aos_az = AzimuthAt(events[i].aos_time)
              /\ events[i].los_az = AzimuthAt(events[i].los_time)
        /\ pc = "scan" => (in_pass <=> InPassNow)
        /\ pc = "scan" /\ samples # <<>> /\ samples[Len(samples)] \in EmittedAt => ~in_pass

C21_Witness ==
    /\ pc = "scan"
    /\ Len(events) = 2
    /\ samples[Len(samples)] = events[2].los_time
    /\ ~in_pass
    /\ events[2].los_time - events[2].aos_time >= 120

\* the samples of a pass: from its rise up to the one before its set
SpanOf(ev) == {m \in Sampled : ev.aos_time <= m /\ m < ev.los_time}
PeakOf(ev) == CHOOSE e \in {ElevationAt(m) : m \in SpanOf(ev)} :
                  \A m \in SpanOf(ev) : ElevationAt(m) <= e
PeakTimes(ev) == {m \in SpanOf(ev) : ElevationAt(m) = PeakOf(ev)}

\* C22: for every emitted pass with rise sample j and set sample k, max_el is
\* the maximum of the sampled elevations over j..k-1 and max_el_time the
\* earliest sample of j..k-1 attaining it; hence max_el >= min_elevation and
\* aos_time <= max_el_time < los_time, and nothing of an earlier pass is kept.
C22_PeakOfThePass ==
    Scanning =>
        \A i \in 1..Len(events) :
            /\ events[i].max_el = PeakOf(events[i])
            /\ events[i].max_el_time \in PeakTimes(events[i])
            /\ \A m \in PeakTimes(events[i]) : events[i].max_el_time <= m
            /\ events[i].max_el >= min_elevation
            /\ events[i].aos_time <= events[i].max_el_time
            /\ events[i].max_el_time < events[i].los_time

\* a pass with a lower peak than the pass before it
C22_Witness ==
    /\ pc = "build"
    /\ \E i \in 1..(Len(events) - 1) :
          /\ events[i + 1].max_el < events[i].max_el
          /\ events[i + 1].max_el = PeakOf(events[i + 1])

\* the window opens with the satellite already above the threshold
InProgressAtStart ==
    start_time < end_time /\ ElevationAt(start_time) >= min_elevation

\* the samples of the window that are below the threshold
BelowTimes == {t \in WindowTimes(start_time, end_time) : ElevationAt(t) < min_elevation}

\* C23: a pass in progress when the window starts is never reported: when the
\* first sample is at or above min_elevation, the samples up to and including
\* the first downward crossing give no pass, and no returned pass has its
\* aos_time at the first sample of the window.
C23_InProgressNotReported ==
    Returned("find_passes") =>
        /\ \A i \in 1..Len(result.value) : result.value[i].aos_time # start_time
        /\ InProgressAtStart =>
              \A i \in 1..Len(result.value) :
                  \E d \in BelowTimes : d < result.value[i].aos_time
        /\ InProgressAtStart /\ BelowTimes = {} => result.value = <<>>

C23_Witness ==
    /\ Returned("find_passes")
    /\ InProgressAtStart
    /\ BelowTimes # {}
    /\ Len(result.value) >= 1
    /\ result.value[1].aos_time > start_time + 60

\* C24: the passes returned by find_passes are in chronological order and do
\* not overlap: consecutive passes p, q have p.los_time < q.aos_time, and
\* every aos_time and los_time is a sample instant of the window
\* [start_time, start_time + days).
C24_PassesInOrder ==
    Returned("find_passes") =>
        /\ \A i \in 1..Len(result.value) :
              /\ result.value[i].aos_time \in WindowTimes(start_time, end_time)
              /\ result.value[i].los_time \in WindowTimes(start_time, end_time)
              /\ result.value[i].aos_time < result.value[i].los_time
        /\ \A i \in 1..(Len(result.value) - 1) :
              result.value[i].los_time < result.value[i + 1].aos_time

C24_Witness ==
    /\ Returned("find_passes")
    /\ Len(result.value) >= 2
    /\ start_time % 60 # 0
    /\ result.value[2].aos_time - result.value[1].los_time >= 60

\* the instants start + k minutes below end, in increasing order
RECURSIVE Instants(_, _)
Instants(st, en) == IF st < en THEN <<st>> \o Instants(st + 60, en) ELSE <<>>

C26_LookupAtThePeak ==
    Returned("find_passes") /\ eph =>
        /\ Len(lookups) = Len(result.value)
        /\ \A i \in 1..Len(lookups) :
              /\ lookups[i].pass = i
              /\ lookups[i].t = result.value[i].max_elevation_time

\* ---------------------------------------------------------------- C27
ScanRunning == p_pc = "loop" \/ ParseStringReturned

\* the triples taken so far are disjoint and in increasing position, and the
\* record of each has the line at its index as its name
TriplesInOrder ==
    /\ Len(ps_satellites) = Len(ps_taken)
    /\ \A k \in 1..Len(ps_taken) :
          /\ ps_taken[k] + 3 <= Len(ps_lines)
          /\ ps_satellites[k].name = Strip(ps_lines[ps_taken[k] + 1])
          /\ k > 1 => ps_taken[k] >= ps_taken[k - 1] + 3

\* the records of the well-formed blocks of a text, in the text's order
RECURSIVE RecordsOf(_)
RecordsOf(blocks) ==
    IF blocks = <<>> THEN <<>>
    ELSE IF Head(blocks) \in GoodBlocks
    THEN <<ParseLines(Block(Head(blocks))[1], Block(Head(blocks))[2],
                      Block(Head(blocks))[3]).value[1]>> \o RecordsOf(Tail(blocks))
    ELSE RecordsOf(Tail(blocks))

\* well-formed records with stray lines before and between them
StrayAndRecords ==
    \A k \in 1..Len(p_blocks) : p_blocks[k] \in GoodBlocks \cup StrayBlocks

\* C27: parse_string scans i upward from 0 while three lines remain; a group
\* whose second and third lines begin with "1" and "2" is taken as one
\* satellite named by its first line and i advances by three, otherwise i
\* advances by one; the triples of the records are disjoint and in increasing
\* position, and stray lines before or between well-formed records do not
\* keep those records from being returned.
C27_StrayLinesHideNothing ==
    ScanRunning =>
        /\ ps_i <= Len(ps_lines)
        /\ TriplesInOrder
        /\ ps_failed = {}
        /\ (ParseStringReturned /\ StrayAndRecords)
              => p_result.value = RecordsOf(p_blocks)

\* ---------------------------------------------------------------- C28
\* the while loop of parse_string from index i, as a function of the lines
RECURSIVE ScanFrom(_, _)
ScanFrom(lines, i) ==
    IF ~LoopContinues(i, Len(lines)) THEN <<>>
    ELSE IF ~PrefixOk(Strip(lines[i + 2]), Strip(lines[i + 3]))
    THEN ScanFrom(lines, i + 1)
    ELSE LET r == ParseLines(Strip(lines[i + 1]), Strip(lines[i + 2]),
                             Strip(lines[i + 3]))
         IN  IF r.kind = "ok" THEN <<r.value[1]>> \o ScanFrom(lines, i + 3)
             ELSE ScanFrom(lines, i + 3)

\* the lines that are neither empty nor whitespace only
RECURSIVE NonEmptyLines(_)
NonEmptyLines(lines) ==
    IF lines = <<>> THEN <<>>
    ELSE IF Strip(Head(lines)) = <<>> THEN NonEmptyLines(Tail(lines))
    ELSE <<Head(lines)>> \o NonEmptyLines(Tail(lines))

\* the loop of the actions returns what the function of the lines returns
ScanAgrees == ParseStringReturned => p_result.value = ScanFrom(ps_lines, 0)

\* C28: parse_string groups only the non-empty lines of the text: the records
\* returned, names included, are those returned for the text without its
\* empty and whitespace-only lines, so a blank line between a name line and
\* its line 1 leaves the record's name as it is.
C28_BlankLinesIgnored ==
    ParseStringReturned => p_result.value = ScanFrom(NonEmptyLines(ps_lines), 0)

\* ---------------------------------------------------------------- C29
\* the exponent and the mantissa digits of a packed field
PackedExponent(field) ==
    IF field[PACKED_WIDTH - 1] = "-" THEN 0 - DigitVal(field[PACKED_WIDTH])
    ELSE DigitVal(field[PACKED_WIDTH])
MantissaDigits(field) == SelectSeq(DropLast(field, 2), IsDigit)

\* 0.d1..dn x 10^e, negated when neg
Expected(neg, field) ==
    IF field = BlankField THEN Zero
    ELSE Decimal(neg, MantissaDigits(field),
                 Len(MantissaDigits(field)) - PackedExponent(field))

LeadingMinus(field) == field[1] = "-"
FirstNonBlankMinus(field) == \E k \in 1..Len(field) :
    field[k] = "-" /\ \A h \in 1..(k - 1) : field[h] = " "

PackedReturned == ParseLinesReturned /\ p_args \in PackedArgs
DdotField == Slice(p_args.line1, 44, 52)
BstarField == Slice(p_args.line1, 53, 61)

\* C29: for both packed fields of line 1 (columns 45-52 and 54-61) parse_lines
\* decodes mantissa digits d1..dn and a trailing signed exponent digit e as
\* 0.d1..dn x 10^e, negated if and only if the first non-blank character of
\* the field is "-", whatever the sign of the exponent; a blank field decodes
\* to 0.0.
C29_PackedFields ==
    PackedReturned =>
        /\ p_result.kind = "ok"
        /\ p_result.value[1].mean_motion_ddot =
              Expected(FirstNonBlankMinus(DdotField), DdotField)
        /\ p_result.value[1].bstar =
              Expected(FirstNonBlankMinus(BstarField), BstarField)

\* C29 as stated: the value is negated if and only if the leading character
\* of the field is "-".
C29_AsStated ==
    PackedReturned =>
        /\ p_result.kind = "ok"
        /\ p_result.value[1].mean_motion_ddot =
              Expected(LeadingMinus(DdotField), DdotField)
        /\ p_result.value[1].bstar = Expected(LeadingMinus(BstarField), BstarField)

\* " -1234-3" in columns 45-52 gives -0.1234e-3, "-12345+3" in columns 54-61
\* gives -123.45
C29_Witness ==
    /\ PackedReturned
    /\ DdotField = <<" ", "-", "1", "2", "3", "4", "-", "3">>
    /\ BstarField = <<"-", "1", "2", "3", "4", "5", "+", "3">>
    /\ p_result.value[1].mean_motion_ddot =
          [neg |-> TRUE, digs |-> <<"1", "2", "3", "4">>, scale |-> 7]
    /\ p_result.value[1].bstar =
          [neg |-> TRUE, digs |-> <<"1", "2", "3", "4", "5">>, scale |-> 2]

\* ---------------------------------------------------------------- C30
IsVisibleReturned == tracker_result.op = "is_visible"

\* C30: is_visible never reports an unregistered satellite as visible: after
\* any sequence of add_satellite calls, is_visible for a name that is not in
\* the registry returns False for every min_elevation, also for
\* min_elevation <= 0.
C30_UnregisteredNeverVisible ==
    (IsVisibleReturned /\ tracker_result.name \notin tracker_satellites)
        => tracker_result.value = FALSE

==============================================================================
